---- MODULE Spec2Model ----
(***************************************************************************)
(* A model of the FinanzOnline SOAP client: the transport                  *)
(* (sendSoapRequest, parseSoapBody, isMaintenanceResponse), the request    *)
(* envelope (buildSoapEnvelope, escapeXml), the session operations (login, *)
(* logout), the databox operations (getDatabox, getDataboxEntry), the      *)
(* configuration loader (loadConfig) and the commands of the CLI (list,    *)
(* download, sync).                                                        *)
(*                                                                         *)
(* JavaScript values are modelled as follows.                              *)
(*   - an optional value is a sequence: <<>> is undefined, <<x>> is x;     *)
(*   - a number is [nan, v]: NaN, or the finite integer v;                 *)
(*   - a string on which the code does character work (return codes,       *)
(*     base64 content, fileart, status) is a sequence of one-character     *)
(*     strings; other strings are TLA+ strings;                            *)
(*   - a thrown value is [class, name, isError, msg, cause, rc,            *)
(*     xmlSnippet].                                                        *)
(***************************************************************************)
EXTENDS Integers, Sequences, FiniteSets, TLC

VARIABLES
  op,        \* the operation in progress: "none", "login", "logout", ...
  pc,        \* where the call stands: idle, fetching, reading, settled, done
  timer,     \* the timeout timer of sendSoapRequest: unset, armed, fired, cleared
  aborted,   \* controller.signal.aborted
  resp,      \* the HTTP response the network function resolved with
  text,      \* the body text once read: the local text of sendSoapRequest
  caught,    \* the error caught by the catch block of sendSoapRequest
  parsed,    \* whether parseSoapBody has been invoked by this call
  soap,      \* how sendSoapRequest settled
  decoded,   \* whether Buffer.from has been invoked by this call
  outcome,   \* how the operation settled
  raw,       \* the raw list record handed to parseEntry (SpecEntry)
  entry,     \* the Document Entry parseEntry made of it (SpecEntry)
  fetchCalls, \* how often the network function has been called
  input,     \* the arguments of the function applied (SpecApply)
  output,    \* what the function applied to them yielded
  cli,       \* the CLI command in progress (SpecCli)
  other      \* a second call in flight beside this one (SpecConcurrent)

vars == <<op, pc, timer, aborted, resp, text, caught, parsed, soap, decoded,
          outcome, raw, entry, fetchCalls, input, output, cli, other>>

(***************************************************************************)
(* Bounds of the model.                                                    *)
(***************************************************************************)
MaxRcLen == 2        \* longest return-code string the service sends
MaxContentLen == 2   \* longest document content string
MaxSourceLen == 202  \* longest response text handed to parseSoapBody
MaxValueLen == 4     \* longest text handed to escapeXml
MaxParams == 3       \* most parameters handed to buildSoapEnvelope
MaxParts == 2        \* most pieces of content in a response text
MaxEntries == 2      \* longest result sequence of a listing

(***************************************************************************)
(* JavaScript values.                                                      *)
(***************************************************************************)
None == <<>>
Some(x) == <<x>>
IsSome(m) == Len(m) = 1
OrElse(m, d) == IF Len(m) = 1 THEN m[1] ELSE d   \* m ?? d

NaN == [nan |-> TRUE, v |-> 0]
Num(n) == [nan |-> FALSE, v |-> n]
StrictEq(a, n) == ~a.nan /\ a.v = n              \* a === n, n an integer

SeqsUpTo(S, n) == UNION {[1..k -> S] : k \in 0..n}

Whitespace == {" "}
Digits == {"0", "1", "2", "3", "4", "5", "6", "7", "8", "9"}

RECURSIVE TrimLeft(_)
TrimLeft(s) ==
  IF s # <<>> /\ Head(s) \in Whitespace THEN TrimLeft(Tail(s)) ELSE s

RECURSIVE TrimRight(_)
TrimRight(s) ==
  IF s # <<>> /\ s[Len(s)] \in Whitespace
  THEN TrimRight(SubSeq(s, 1, Len(s) - 1)) ELSE s

\* String.prototype.trim
Trim(s) == TrimRight(TrimLeft(s))

DigitValue(c) ==
  CASE c = "0" -> 0 [] c = "1" -> 1 [] c = "2" -> 2 [] c = "3" -> 3
    [] c = "4" -> 4 [] c = "5" -> 5 [] c = "6" -> 6 [] c = "7" -> 7
    [] c = "8" -> 8 [] c = "9" -> 9

IsDigits(s) == s # <<>> /\ \A i \in 1..Len(s) : s[i] \in Digits

RECURSIVE DigitsValue(_)
DigitsValue(s) ==
  IF s = <<>> THEN 0
  ELSE 10 * DigitsValue(SubSeq(s, 1, Len(s) - 1)) + DigitValue(s[Len(s)])

\* Number(string) on the strings of the model (decimal integers, no
\* exponent, no radix prefix): surrounding whitespace is dropped, the empty
\* string is 0, an optionally signed run of digits is its value, anything
\* else is NaN.
ToNumber(s) ==
  LET t == Trim(s) IN
  IF t = <<>> THEN Num(0)
  ELSE IF IsDigits(t) THEN Num(DigitsValue(t))
  ELSE IF t[1] \in {"-", "+"} /\ IsDigits(Tail(t))
       THEN Num(IF t[1] = "-" THEN 0 - DigitsValue(Tail(t))
                ELSE DigitsValue(Tail(t)))
  ELSE NaN

\* A raw return code as the XML parser delivers it: undefined, a number or
\* a string.
RawUndefined == [t |-> "undefined"]
RawNumber(n) == [t |-> "number", n |-> n]
RawString(s) == [t |-> "string", s |-> s]

(***************************************************************************)
(* Errors.  Every thrown value is a record [class, name, isError, msg,     *)
(* cause, rc, xmlSnippet]: class is what instanceof tests, name is         *)
(* error.name; cause, rc and xmlSnippet are optional.                      *)
(***************************************************************************)
Thrown(class, name, isError, msg, cause, rc) ==
  [class |-> class, name |-> name, isError |-> isError, msg |-> msg,
   cause |-> cause, rc |-> rc, xmlSnippet |-> None]

\* class FinanzonlineError and its subclasses: name is the class name.
FinanzonlineError(class, msg, cause, rc) ==
  Thrown(class, class, TRUE, msg, cause, rc)

ErrorClasses ==
  {"ConfigurationError", "NetworkError", "SoapFaultError", "InvalidXmlError",
   "MaintenanceError", "InvalidCredentialsError", "SessionError",
   "SessionExpiredError", "DataboxError"}

NetworkError(msg, cause) == FinanzonlineError("NetworkError", msg, cause, None)
SoapFaultError(msg) == FinanzonlineError("SoapFaultError", msg, None, None)
InvalidXmlError(msg, xmlSnippet) ==
  [FinanzonlineError("InvalidXmlError", msg, None, None)
     EXCEPT !.xmlSnippet = Some(xmlSnippet)]
MaintenanceError(msg) == FinanzonlineError("MaintenanceError", msg, None, None)
InvalidCredentialsError(msg, rc) ==
  FinanzonlineError("InvalidCredentialsError", msg, None, Some(rc))
SessionError(msg, rc) == FinanzonlineError("SessionError", msg, None, Some(rc))
SessionExpiredError(msg, rc) ==
  FinanzonlineError("SessionExpiredError", msg, None, Some(rc))
DataboxError(msg, rc) == FinanzonlineError("DataboxError", msg, None, Some(rc))

\* What a function call yields: a returned value or a thrown one.
NoValue == [t |-> "none"]
NoError == Thrown("none", "none", FALSE, "", None, None)
Return(v) == [kind |-> "value", val |-> v, err |-> NoError]
Throw(e) == [kind |-> "error", val |-> NoValue, err |-> e]
Pending == [kind |-> "pending", val |-> NoValue, err |-> NoError]

(***************************************************************************)
(* The parsed response document: what XMLParser.parse yields for the       *)
(* response text.  A document has an optional Envelope, the envelope an    *)
(* optional Body; a body is a string (an empty or text-only element) or    *)
(* an object, an ordered list of members [key, val]; a member value is a   *)
(* string or an object with optional fields.                               *)
(***************************************************************************)
StringValue(s) == [t |-> "string", s |-> s]
ObjectValue(rc, msg, id, result, faultstring, faultcode) ==
  [t |-> "object", rc |-> rc, msg |-> msg, id |-> id, result |-> result,
   faultstring |-> faultstring, faultcode |-> faultcode]

ResultUndefined == [t |-> "undefined"]
ResultString(s) == [t |-> "string", s |-> s]
ResultObject(o) == [t |-> "object", o |-> o]
ResultArray(a) == [t |-> "array", a |-> a]

\* Property reads on a member value: a string has none of the fields.
FieldRc(v) == IF v.t = "object" THEN v.rc ELSE RawUndefined
FieldMsg(v) == IF v.t = "object" THEN v.msg ELSE None
FieldId(v) == IF v.t = "object" THEN v.id ELSE None
FieldResult(v) == IF v.t = "object" THEN v.result ELSE ResultUndefined

\* JavaScript truthiness of a string or object value.
Truthy(v) == IF v.t = "string" THEN v.s # "" ELSE TRUE

Keys(members) == [i \in 1..Len(members) |-> members[i].key]
HasKey(members, k) == \E i \in 1..Len(members) : members[i].key = k
ValueAt(members, k) ==
  members[CHOOSE i \in 1..Len(members) : members[i].key = k].val

\* The keys with Fault left among them.
WithoutFaultKeep(keys) == keys

RECURSIVE WithoutFault(_)
WithoutFault(keys) ==
  IF keys = <<>> THEN <<>>
  ELSE IF Head(keys) # "Fault" THEN <<Head(keys)>> \o WithoutFault(Tail(keys))
  ELSE WithoutFault(Tail(keys))

\* String.prototype.slice(0, end) on a sequence of characters.
\* slice that keeps the whole text.
sliceWhole(s, end) == s
slice(s, end) == SubSeq(s, 1, IF end <= Len(s) THEN end ELSE Len(s))

\* The length of the excerpt an InvalidXmlError carries.
XmlSnippetLength == 200

\* parseSoapBody(xml, expectedKey): the payload, or a typed error.  xml is
\* the text [src, doc]: its characters and what the parser makes of them.
\* What the parser throws, an Error or not, is turned into InvalidXmlError
\* by the catch block.
parseSoapBody(xml, expectedKey) ==
  IF xml.doc.t = "throws"
  THEN Throw(InvalidXmlError(
               IF xml.doc.isError THEN xml.doc.msg
               ELSE "Failed to parse SOAP response",
               slice(xml.src, XmlSnippetLength)))
  ELSE
    LET envelope == xml.doc.envelope
        body == IF IsSome(envelope) THEN envelope[1].body ELSE None
    IN
    IF ~IsSome(body) \/ ~Truthy(body[1]) \/ body[1].t # "object"
    THEN Throw(InvalidXmlError("SOAP response missing Body",
                               slice(xml.src, XmlSnippetLength)))
    ELSE
      LET members == body[1].members IN
      IF HasKey(members, "Fault") /\ Truthy(ValueAt(members, "Fault"))
      THEN
        LET fault == ValueAt(members, "Fault")
            faultString ==
              IF fault.t = "object" /\ IsSome(fault.faultstring)
              THEN fault.faultstring[1] ELSE "SOAP fault"
        IN Throw(SoapFaultError(faultString))
      ELSE
        LET candidateKeys == WithoutFault(Keys(members))
            responseKey ==
              IF IsSome(expectedKey) THEN expectedKey
              ELSE IF Len(candidateKeys) > 0 THEN Some(candidateKeys[1])
              ELSE None
        IN
        IF ~IsSome(responseKey) \/ ~HasKey(members, responseKey[1])
        THEN Throw(InvalidXmlError("SOAP response missing expected payload",
                                   slice(xml.src, XmlSnippetLength)))
        ELSE Return(ValueAt(members, responseKey[1]))

\* RegExp.prototype.test of a case-insensitive literal pattern (given in
\* lower case) on a sequence of characters.
LowerChar(c) ==
  CASE c = "H" -> "h" [] c = "T" -> "t" [] c = "M" -> "m" [] c = "L" -> "l"
    [] c = "W" -> "w" [] c = "A" -> "a" [] c = "R" -> "r" [] c = "U" -> "u"
    [] c = "N" -> "n" [] c = "G" -> "g"
    [] OTHER -> c

Matches(pattern, s) ==
  \E i \in 1..(Len(s) - Len(pattern) + 1) :
    \A j \in 1..Len(pattern) : LowerChar(s[i + j - 1]) = pattern[j]

\* isMaintenanceResponse(text): /<html/i and /\/wartung\//i both match.
isMaintenanceResponse(body) ==
  /\ Matches(<<"<", "h", "t", "m", "l">>, body.src)
  /\ Matches(<<"/", "w", "a", "r", "t", "u", "n", "g", "/">>, body.src)

\* Response.ok
ResponseOk(r) == r.status >= 200 /\ r.status <= 299

\* Classify with the HTTP status examined before the maintenance pattern.
ClassifyStatusFirst(r) ==
  IF ~ResponseOk(r)
  THEN [res |-> Throw(NetworkError("SOAP request failed with status", None)),
        parsed |-> FALSE]
  ELSE IF isMaintenanceResponse(r.text)
  THEN [res |-> Throw(MaintenanceError("FinanzOnline is in maintenance mode.")),
        parsed |-> FALSE]
  ELSE [res |-> parseSoapBody(r.text, None), parsed |-> TRUE]

\* Classify with the element of the operation in progress passed to
\* parseSoapBody as the expected key.
ClassifyExpected(r) ==
  IF isMaintenanceResponse(r.text)
  THEN [res |-> Throw(MaintenanceError("FinanzOnline is in maintenance mode.")),
        parsed |-> FALSE]
  ELSE IF ~ResponseOk(r)
  THEN [res |-> Throw(NetworkError("SOAP request failed with status", None)),
        parsed |-> FALSE]
  ELSE [res |-> parseSoapBody(r.text, Some(op \o "Response")),
        parsed |-> TRUE]

\* sendSoapRequest, the try block once the body text has been read (lines
\* 97-107): the typed result, and whether parseSoapBody was invoked.
Classify(r) ==
  IF isMaintenanceResponse(r.text)
  THEN [res |-> Throw(MaintenanceError("FinanzOnline is in maintenance mode.")),
        parsed |-> FALSE]
  ELSE IF ~ResponseOk(r)
  THEN [res |-> Throw(NetworkError("SOAP request failed with status", None)),
        parsed |-> FALSE]
  ELSE [res |-> parseSoapBody(r.text, None), parsed |-> TRUE]

\* CatchTranslate without the AbortError test: an abort is reported as any
\* other failure of the network function.
CatchTranslateNoTimeout(e) ==
  IF e.class \in {"MaintenanceError", "InvalidXmlError", "SoapFaultError",
                  "NetworkError"}
  THEN e
  ELSE NetworkError("SOAP request failed", Some(e))

\* CatchTranslate without the re-raise of NetworkError: the error of a
\* failed HTTP status is wrapped in a second NetworkError.
CatchTranslateRewrap(e) ==
  IF e.class \in {"MaintenanceError", "InvalidXmlError", "SoapFaultError"}
  THEN e
  ELSE IF e.isError /\ e.name = "AbortError"
  THEN NetworkError("SOAP request timed out", Some(e))
  ELSE NetworkError("SOAP request failed", Some(e))

\* sendSoapRequest, the catch block (lines 108-129): what is thrown to the
\* caller for an error e raised in the try block.
CatchTranslate(e) ==
  IF e.class = "MaintenanceError" THEN e
  ELSE IF e.class = "InvalidXmlError" THEN e
  ELSE IF e.class = "SoapFaultError" THEN e
  ELSE IF e.class = "NetworkError" THEN e
  ELSE IF e.isError /\ e.name = "AbortError"
  THEN NetworkError("SOAP request timed out", Some(e))
  ELSE NetworkError("SOAP request failed", Some(e))

(***************************************************************************)
(* Building the request envelope.  A text is a sequence of characters; the *)
(* envelope is the sequence of its pieces in the order the template joins  *)
(* them: each literal piece of the template is one element, each escaped   *)
(* value contributes its characters.                                       *)
(***************************************************************************)
RECURSIVE ReplaceAll(_, _, _)
ReplaceAll(s, c, r) ==
  IF s = <<>> THEN <<>>
  ELSE (IF Head(s) = c THEN r ELSE <<Head(s)>>) \o ReplaceAll(Tail(s), c, r)

\* The replacement text of each of the five characters.
Entity(c) ==
  CASE c = "&" -> <<"&", "a", "m", "p", ";">>
    [] c = "<" -> <<"&", "l", "t", ";">>
    [] c = ">" -> <<"&", "g", "t", ";">>
    [] c = "\"" -> <<"&", "q", "u", "o", "t", ";">>
    [] c = "'" -> <<"&", "a", "p", "o", "s", ";">>

\* escapeXml with the ampersand replaced last.
escapeXmlAmpLast(value) ==
  ReplaceAll(
    ReplaceAll(
      ReplaceAll(
        ReplaceAll(
          ReplaceAll(value, "<", Entity("<")),
          ">", Entity(">")),
        "\"", Entity("\"")),
      "'", Entity("'")),
    "&", Entity("&"))

\* escapeXml(value): five replacements, the ampersand first.
escapeXml(value) ==
  ReplaceAll(
    ReplaceAll(
      ReplaceAll(
        ReplaceAll(
          ReplaceAll(value, "&", Entity("&")),
          "<", Entity("<")),
        ">", Entity(">")),
      "\"", Entity("\"")),
    "'", Entity("'"))

\* String(n) of an integer.
DecimalDigits == <<"0", "1", "2", "3", "4", "5", "6", "7", "8", "9">>
RECURSIVE NaturalToString(_)
NaturalToString(n) ==
  IF n < 10 THEN <<DecimalDigits[n + 1]>>
  ELSE NaturalToString(n \div 10) \o <<DecimalDigits[(n % 10) + 1]>>
NumberToString(n) ==
  IF n < 0 THEN <<"-">> \o NaturalToString(0 - n) ELSE NaturalToString(n)

\* Date.prototype.toISOString on the dates of the model, which lie in
\* January 1970: the text, or a RangeError for an invalid date.
toISOString(d) ==
  IF ~d.valid
  THEN Throw(Thrown("RangeError", "RangeError", TRUE, "Invalid time value",
                    None, None))
  ELSE
    LET Pad(n, width) ==
          LET digits == NaturalToString(n)
          IN [i \in 1..(width - Len(digits)) |-> "0"] \o digits
        day == (d.ms \div 86400000) + 1
        rest == d.ms % 86400000
    IN Return(<<"1", "9", "7", "0", "-", "0", "1", "-">> \o Pad(day, 2)
              \o <<"T">> \o Pad(rest \div 3600000, 2)
              \o <<":">> \o Pad((rest \div 60000) % 60, 2)
              \o <<":">> \o Pad((rest \div 1000) % 60, 2)
              \o <<".">> \o Pad(rest % 1000, 3) \o <<"Z">>)

\* A parameter value: undefined, null, a string, a number or a Date; the
\* mapping is the sequence of its entries [key, val].
Null == [t |-> "null"]
DateValue(d) == [t |-> "date", d |-> d]
Member(k, v) == [key |-> k, val |-> v]

\* SerializeParams without the filter: undefined and null are written out.
RECURSIVE SerializeParamsAll(_)
SerializeParamsAll(params) ==
  IF params = <<>> THEN Return(<<>>)
  ELSE
    LET key == Head(params).key
        value == Head(params).val
        rest == SerializeParamsAll(Tail(params))
        content ==
          IF value.t = "date" THEN toISOString(value.d)
          ELSE IF value.t = "number" THEN Return(NumberToString(value.n))
          ELSE IF value.t = "string" THEN Return(value.s)
          ELSE IF value.t = "null" THEN Return(<<"n", "u", "l", "l">>)
          ELSE Return(<<"u", "n", "d", "e", "f", "i", "n", "e", "d">>)
    IN
    IF content.kind = "error" THEN content
    ELSE IF rest.kind = "error" THEN rest
    ELSE Return(<<"<" \o key \o ">">> \o escapeXml(content.val)
                \o <<"</" \o key \o ">">> \o rest.val)

\* One entry of the mapping serialized: nothing for undefined and null,
\* else the element with the escaped value.
RECURSIVE SerializeParams(_)
SerializeParams(params) ==
  IF params = <<>> THEN Return(<<>>)
  ELSE
    LET key == Head(params).key
        value == Head(params).val
        rest == SerializeParams(Tail(params))
        content ==
          IF value.t = "date" THEN toISOString(value.d)
          ELSE IF value.t = "number" THEN Return(NumberToString(value.n))
          ELSE Return(value.s)
    IN
    IF value.t \in {"undefined", "null"} THEN rest
    ELSE IF content.kind = "error" THEN content
    ELSE IF rest.kind = "error" THEN rest
    ELSE Return(<<"<" \o key \o ">">> \o escapeXml(content.val)
                \o <<"</" \o key \o ">">> \o rest.val)

\* buildSoapEnvelope(namespace, operation, params)
buildSoapEnvelope(namespace, operation, params) ==
  LET serializedParams == SerializeParams(params)
  IN IF serializedParams.kind = "error" THEN serializedParams
     ELSE Return(
       <<"<?xml version=\"1.0\" encoding=\"UTF-8\"?>",
         "<soapenv:Envelope xmlns:soapenv=\""
           \o "http://schemas.xmlsoap.org/soap/envelope/"
           \o "\" xmlns:ns=\"" \o namespace \o "\">",
         "<soapenv:Body>",
         "<ns:" \o operation \o ">">>
       \o serializedParams.val
       \o <<"</ns:" \o operation \o ">",
            "</soapenv:Body>",
            "</soapenv:Envelope>">>)

(***************************************************************************)
(* Session operations.                                                     *)
(***************************************************************************)
\* normalizeReturnCode of session.ts
sessionNormalizeReturnCode(value) ==
  LET parsedValue ==
        IF value.t = "string" THEN ToNumber(value.s)
        ELSE IF value.t = "number" THEN Num(value.n)
        ELSE NaN
  IN IF ~parsedValue.nan THEN parsedValue ELSE NaN

SessionInfo(sessionId, returnCode, message) ==
  [t |-> "session", sessionId |-> sessionId, returnCode |-> returnCode,
   message |-> message]

BoolValue(b) == [t |-> "boolean", b |-> b]

\* SessionClient.login, from the payload sendSoapRequest resolved with.
login(response) ==
  LET returnCode == sessionNormalizeReturnCode(FieldRc(response))
      message == OrElse(FieldMsg(response), "")
      sessionId == OrElse(FieldId(response), "")
  IN
  IF StrictEq(returnCode, -4)
  THEN Throw(InvalidCredentialsError(
               IF message # "" THEN message ELSE "Invalid credentials",
               returnCode))
  ELSE IF ~StrictEq(returnCode, 0)
  THEN Throw(SessionError(
               IF message # "" THEN message ELSE "Session login failed",
               returnCode))
  ELSE IF sessionId = ""
  THEN Throw(SessionError("Session ID missing in response", returnCode))
  ELSE Return(SessionInfo(sessionId, returnCode, message))

\* SessionClient.logout, from the payload sendSoapRequest resolved with.
logout(response) ==
  LET returnCode == sessionNormalizeReturnCode(FieldRc(response))
  IN Return(BoolValue(StrictEq(returnCode, 0)))

(***************************************************************************)
(* Databox operations.                                                     *)
(***************************************************************************)
\* normalizeReturnCode of databox.ts
databoxNormalizeReturnCode(value) ==
  LET parsedValue ==
        IF value.t = "string" THEN ToNumber(value.s)
        ELSE IF value.t = "number" THEN Num(value.n)
        ELSE NaN
  IN IF ~parsedValue.nan THEN parsedValue ELSE NaN

\* String.prototype.toUpperCase on the letters of the model.
UpperChar(c) ==
  CASE c = "x" -> "X" [] c = "m" -> "M" [] c = "l" -> "L" [] c = "r" -> "R"
    [] c = "e" -> "E" [] c = "a" -> "A" [] c = "d" -> "D" [] c = "p" -> "P"
    [] c = "f" -> "F" [] c = "u" -> "U" [] c = "n" -> "N"
    [] OTHER -> c

toUpperCase(s) == [i \in 1..Len(s) |-> UpperChar(s[i])]

\* normalizeFileart without the upper-casing.
normalizeFileartExact(value) ==
  IF OrElse(value, <<>>) = <<"X", "M", "L">> THEN "XML" ELSE "PDF"

normalizeFileart(value) ==
  LET normalized == toUpperCase(OrElse(value, <<>>))
  IN IF normalized = <<"X", "M", "L">> THEN "XML" ELSE "PDF"

normalizeStatus(value) ==
  LET normalized == toUpperCase(OrElse(value, <<>>))
  IN IF normalized = <<"R", "E", "A", "D">> THEN "READ" ELSE "UNREAD"

\* A Date: an invalid date, or milliseconds since the epoch.
InvalidDate == [valid |-> FALSE, ms |-> 0]
DateOf(ms) == [valid |-> TRUE, ms |-> ms]

\* new Date(string) on the timestamps of the model.
DateParse(str) ==
  CASE str = "1970-01-02T00:00:00Z" -> DateOf(86400000)
    [] str = "1970-01-03T00:00:00Z" -> DateOf(172800000)
    [] str = "1970-01-02T12:00:00Z" -> DateOf(129600000)
    [] OTHER -> InvalidDate

\* Property read on a raw list record: a string has none of the fields.
RawField(rawv, f) == IF rawv.t = "object" THEN rawv.o[f] ELSE None

parseEntry(rawv) ==
  LET d == RawField(rawv, "datbesch")
      z == RawField(rawv, "ts_zust")
      datbesch == IF IsSome(d) /\ d[1] # ""
                  THEN DateParse(d[1] \o "T00:00:00Z") ELSE DateOf(0)
      tsZust == IF IsSome(z) /\ z[1] # "" THEN DateParse(z[1]) ELSE DateOf(0)
  IN
  [stnr |-> OrElse(RawField(rawv, "stnr"), ""),
   name |-> OrElse(RawField(rawv, "name"), ""),
   anbringen |-> OrElse(RawField(rawv, "anbringen"), ""),
   zrvon |-> OrElse(RawField(rawv, "zrvon"), ""),
   zrbis |-> OrElse(RawField(rawv, "zrbis"), ""),
   datbesch |-> datbesch,
   erltyp |-> OrElse(RawField(rawv, "erltyp"), ""),
   fileart |-> normalizeFileart(RawField(rawv, "fileart")),
   ts_zust |-> tsZust,
   applkey |-> OrElse(RawField(rawv, "applkey"), ""),
   filebez |-> OrElse(RawField(rawv, "filebez"), ""),
   status |-> normalizeStatus(RawField(rawv, "status"))]

\* JavaScript truthiness of a result field.
ResultTruthy(r) ==
  CASE r.t = "undefined" -> FALSE
    [] r.t = "string" -> r.s # <<>>
    [] OTHER -> TRUE

EntriesValue(list) == [t |-> "entries", list |-> list]

\* getDatabox with the result examined before the return code.
getDataboxPayloadFirst(response) ==
  LET returnCode == databoxNormalizeReturnCode(FieldRc(response))
      rawResult == FieldResult(response)
  IN
  IF ResultTruthy(rawResult)
  THEN LET entries == IF rawResult.t = "array" THEN rawResult.a
                      ELSE <<rawResult>>
       IN Return(EntriesValue(
                   [i \in 1..Len(entries) |-> parseEntry(entries[i])]))
  ELSE IF StrictEq(returnCode, -1)
  THEN Throw(SessionExpiredError(
               OrElse(FieldMsg(response), "Session expired"), returnCode))
  ELSE IF ~StrictEq(returnCode, 0)
  THEN Throw(DataboxError(
               OrElse(FieldMsg(response), "Failed to list databox"),
               returnCode))
  ELSE Return(EntriesValue(<<>>))

\* getDatabox without the Array.isArray test: a sequence is wrapped like a
\* single object.
getDataboxNoArray(response) ==
  LET returnCode == databoxNormalizeReturnCode(FieldRc(response)) IN
  IF StrictEq(returnCode, -1)
  THEN Throw(SessionExpiredError(
               OrElse(FieldMsg(response), "Session expired"), returnCode))
  ELSE IF ~StrictEq(returnCode, 0)
  THEN Throw(DataboxError(
               OrElse(FieldMsg(response), "Failed to list databox"),
               returnCode))
  ELSE
    LET rawResult == FieldResult(response) IN
    IF ~ResultTruthy(rawResult) THEN Return(EntriesValue(<<>>))
    ELSE Return(EntriesValue(<<parseEntry(rawResult)>>))

\* DataboxClient.getDatabox, from the payload sendSoapRequest resolved with.
getDatabox(response) ==
  LET returnCode == databoxNormalizeReturnCode(FieldRc(response)) IN
  IF StrictEq(returnCode, -1)
  THEN Throw(SessionExpiredError(
               OrElse(FieldMsg(response), "Session expired"), returnCode))
  ELSE IF ~StrictEq(returnCode, 0)
  THEN Throw(DataboxError(
               OrElse(FieldMsg(response), "Failed to list databox"),
               returnCode))
  ELSE
    LET rawResult == FieldResult(response) IN
    IF ~ResultTruthy(rawResult) THEN Return(EntriesValue(<<>>))
    ELSE
      LET entries == IF rawResult.t = "array" THEN rawResult.a
                     ELSE <<rawResult>>
      IN Return(EntriesValue(
                  [i \in 1..Len(entries) |-> parseEntry(entries[i])]))

\* The base64 alphabet, in the order of the sextet values 0..63.
Base64Alphabet ==
  <<
     "A", "B", "C", "D", "E", "F", "G", "H", "I", "J", "K", "L", "M",
     "N", "O", "P", "Q", "R", "S", "T", "U", "V", "W", "X", "Y", "Z",
     "a", "b", "c", "d", "e", "f", "g", "h", "i", "j", "k", "l", "m",
     "n", "o", "p", "q", "r", "s", "t", "u", "v", "w", "x", "y", "z",
     "0", "1", "2", "3", "4", "5", "6", "7", "8", "9", "+", "/"
  >>

Base64Chars == {Base64Alphabet[i] : i \in 1..Len(Base64Alphabet)}

\* isLikelyBase64 without the test of the characters.
isLikelyBase64NonEmpty(value) == Trim(value) # <<>>

\* isLikelyBase64: /^[A-Za-z0-9+/=\s]+$/ on the trimmed value.
isLikelyBase64(value) ==
  LET trimmed == Trim(value) IN
  IF trimmed = <<>> THEN FALSE
  ELSE \A i \in 1..Len(trimmed) :
         trimmed[i] \in Base64Chars \cup {"="} \cup Whitespace

SextetOf(c) == (CHOOSE i \in 1..Len(Base64Alphabet) : Base64Alphabet[i] = c) - 1

\* The sextets Buffer.from(s, "base64") reads: decoding stops at the first
\* padding character and skips every other character outside the alphabet.
RECURSIVE Sextets(_)
Sextets(s) ==
  IF s = <<>> THEN <<>>
  ELSE IF Head(s) = "=" THEN <<>>
  ELSE IF Head(s) \in Base64Chars THEN <<SextetOf(Head(s))>> \o Sextets(Tail(s))
  ELSE Sextets(Tail(s))

RECURSIVE BytesOf(_)
BytesOf(q) ==
  IF Len(q) < 2 THEN <<>>
  ELSE
    LET b1 == q[1] * 4 + (q[2] \div 16) IN
    IF Len(q) = 2 THEN <<b1>>
    ELSE
      LET b2 == (q[2] % 16) * 16 + (q[3] \div 4) IN
      IF Len(q) = 3 THEN <<b1, b2>>
      ELSE <<b1, b2, (q[3] % 4) * 64 + q[4]>> \o BytesOf(SubSeq(q, 5, Len(q)))

\* Buffer.from(s, "base64")
Base64Decode(s) == BytesOf(Sextets(s))

BufferValue(bytes) == [t |-> "buffer", bytes |-> bytes]

\* DataboxClient.getDataboxEntry, from the payload sendSoapRequest resolved
\* with: the result, and whether Buffer.from was invoked.  A result that is
\* no string has no trim method: isLikelyBase64 throws a TypeError.
getDataboxEntry(response) ==
  LET returnCode == databoxNormalizeReturnCode(FieldRc(response)) IN
  IF StrictEq(returnCode, -1)
  THEN [res |-> Throw(SessionExpiredError(
                        OrElse(FieldMsg(response), "Session expired"),
                        returnCode)),
        decoded |-> FALSE]
  ELSE IF ~StrictEq(returnCode, 0)
  THEN [res |-> Throw(DataboxError(
                        OrElse(FieldMsg(response),
                               "Failed to download databox entry"),
                        returnCode)),
        decoded |-> FALSE]
  ELSE
    LET result == FieldResult(response) IN
    IF ~ResultTruthy(result)
    THEN [res |-> Throw(DataboxError("Missing document content", returnCode)),
          decoded |-> FALSE]
    ELSE IF result.t # "string"
    THEN [res |-> Throw(Thrown("TypeError", "TypeError", TRUE,
                               "value.trim is not a function", None, None)),
          decoded |-> FALSE]
    ELSE IF ~isLikelyBase64(result.s)
    THEN [res |-> Throw(DataboxError("Invalid base64 content", returnCode)),
          decoded |-> FALSE]
    ELSE [res |-> Return(BufferValue(Base64Decode(result.s))),
          decoded |-> TRUE]

\* getDatabox with the type code left out of the mapping when the filter
\* has none.
getDataboxBodyOmitType(sessionId, credentials, request) ==
  buildSoapEnvelope(
    "https://finanzonline.bmf.gv.at/fon/ws/databox", "getDatabox",
    <<Member("tid", RawString(credentials.tid)),
      Member("benid", RawString(credentials.benid)),
      Member("id", RawString(sessionId)),
      Member("erltyp", IF IsSome(request.erltyp)
                       THEN RawString(request.erltyp[1]) ELSE RawUndefined),
      Member("ts_zust_von", IF IsSome(request.ts_zust_von)
                            THEN DateValue(request.ts_zust_von[1])
                            ELSE RawUndefined),
      Member("ts_zust_bis", IF IsSome(request.ts_zust_bis)
                            THEN DateValue(request.ts_zust_bis[1])
                            ELSE RawUndefined)>>)

\* getDatabox, the request body (lines 69-76): the envelope of the listing
\* for a session, the credentials and a filter whose fields are optional.
getDataboxBody(sessionId, credentials, request) ==
  buildSoapEnvelope(
    "https://finanzonline.bmf.gv.at/fon/ws/databox", "getDatabox",
    <<Member("tid", RawString(credentials.tid)),
      Member("benid", RawString(credentials.benid)),
      Member("id", RawString(sessionId)),
      Member("erltyp", RawString(OrElse(request.erltyp, <<>>))),
      Member("ts_zust_von", IF IsSome(request.ts_zust_von)
                            THEN DateValue(request.ts_zust_von[1])
                            ELSE RawUndefined),
      Member("ts_zust_bis", IF IsSome(request.ts_zust_bis)
                            THEN DateValue(request.ts_zust_bis[1])
                            ELSE RawUndefined)>>)

(***************************************************************************)
(* The configuration loader.  A configuration is a function from the field *)
(* names to values: undefined, null, a string or a number.  The TOML       *)
(* section and the command-line flags are such functions; the .env file    *)
(* and the environment are functions from the field names to the text of   *)
(* the variable FINANZONLINE__<FIELD>, or undefined.                       *)
(***************************************************************************)
StringFields == {"tid", "benid", "pin", "herstellerid", "output_dir"}
NumberFields == {"session_timeout", "query_timeout"}
EmptyConfig == [f \in StringFields \cup NumberFields |-> RawUndefined]

\* parseOptionalNumber(value)
parseOptionalNumber(value) ==
  IF value.t # "string" \/ value.s = <<>> THEN RawUndefined
  ELSE LET parsedNumber == ToNumber(value.s)
       IN IF ~parsedNumber.nan THEN RawNumber(parsedNumber.v)
          ELSE RawUndefined

\* pickConfig(source): a string field is kept when it is a string, a
\* timeout when it is a number.
pickConfig(source) ==
  [f \in StringFields \cup NumberFields |->
     IF f \in StringFields
     THEN IF source[f].t = "string" THEN source[f] ELSE RawUndefined
     ELSE IF source[f].t = "number" THEN source[f] ELSE RawUndefined]

\* mapEnvToConfig(env)
mapEnvToConfig(env) ==
  pickConfig([f \in StringFields \cup NumberFields |->
                IF f \in NumberFields THEN parseOptionalNumber(env[f])
                ELSE env[f]])

\* mergeConfigs with every entry assigned, undefined and null included.
mergeConfigsAssignAll(configs) ==
  IF configs = <<>> THEN EmptyConfig
  ELSE configs[Len(configs)]

\* mergeConfigs(...configs): each configuration in turn assigns the
\* entries it holds that are neither undefined nor null.
RECURSIVE mergeConfigs(_)
mergeConfigs(configs) ==
  IF configs = <<>> THEN EmptyConfig
  ELSE LET merged == mergeConfigs(SubSeq(configs, 1, Len(configs) - 1))
           config == configs[Len(configs)]
       IN [f \in StringFields \cup NumberFields |->
             IF config[f].t \notin {"undefined", "null"} THEN config[f]
             ELSE merged[f]]

\* validateConfig(config): the schema's result, or a ConfigurationError.
validateConfig(config) ==
  LET alphanumeric ==
        Digits \cup
        {"a", "b", "c", "d", "e", "f", "g", "h", "i", "j", "k", "l", "m",
         "n", "o", "p", "q", "r", "s", "t", "u", "v", "w", "x", "y", "z",
         "A", "B", "C", "D", "E", "F", "G", "H", "I", "J", "K", "L", "M",
         "N", "O", "P", "Q", "R", "S", "T", "U", "V", "W", "X", "Y", "Z"}
      IsString(f) == config[f].t = "string"
      Length(f) == Len(config[f].s)
      Alphanumeric(f) ==
        \A i \in 1..Length(f) : config[f].s[i] \in alphanumeric
      TimeoutOk(f) ==
        config[f].t = "undefined" \/ (config[f].t = "number" /\ config[f].n > 0)
      valid ==
        /\ IsString("tid") /\ Alphanumeric("tid")
        /\ Length("tid") >= 8 /\ Length("tid") <= 12
        /\ IsString("benid")
        /\ Length("benid") >= 5 /\ Length("benid") <= 12
        /\ IsString("pin") /\ Length("pin") >= 5 /\ Length("pin") <= 128
        /\ IsString("herstellerid") /\ Alphanumeric("herstellerid")
        /\ Length("herstellerid") >= 10 /\ Length("herstellerid") <= 24
        /\ IsString("output_dir") /\ Len(Trim(config["output_dir"].s)) >= 1
        /\ TimeoutOk("session_timeout") /\ TimeoutOk("query_timeout")
  IN IF ~valid
     THEN Throw(FinanzonlineError("ConfigurationError",
                                  "Invalid configuration", None, None))
     ELSE Return(
       [f \in StringFields \cup NumberFields |->
          IF f = "output_dir" THEN RawString(Trim(config[f].s))
          ELSE IF f \in NumberFields /\ config[f].t = "undefined"
          THEN RawNumber(30)
          ELSE config[f]])

\* The file system: a set of files [path, content].  A path is a directory,
\* the sequence of its components from the root <<>>, and a file name; the
\* content of a file is what its parser yields (toml.parse(raw).finanzonline
\* ?? {} for a TOML file, dotenv.parse(raw) for a .env file).
\* fs.readFileSync(path) followed by the file's parser.
readFileSync(path, files) == (CHOOSE file \in files : file.path = path).content

\* findFileUpwards(startDir, filename): the file of that name in the
\* nearest of the start directory and its ancestors, if any.
RECURSIVE findFileUpwards(_, _, _)
findFileUpwards(startDir, filename, files) ==
  LET candidate == [dir |-> startDir, name |-> filename] IN
  IF \E file \in files : file.path = candidate THEN Some(candidate)
  ELSE IF startDir = <<>> THEN None
  ELSE findFileUpwards(SubSeq(startDir, 1, Len(startDir) - 1), filename, files)

\* loadTomlConfig(configFile, startDir)
loadTomlConfig(configFile, startDir, files) ==
  LET resolvedPath ==
        IF IsSome(configFile) THEN configFile
        ELSE findFileUpwards(startDir, "finanzonline.toml", files)
  IN IF ~IsSome(resolvedPath) THEN [config |-> EmptyConfig, path |-> None]
     ELSE [config |-> pickConfig(readFileSync(resolvedPath[1], files)),
           path |-> resolvedPath]

\* loadDotEnv(startDir)
loadDotEnv(startDir, files) ==
  LET dotenvPath == findFileUpwards(startDir, ".env", files) IN
  IF ~IsSome(dotenvPath) THEN [config |-> EmptyConfig, path |-> None]
  ELSE [config |-> mapEnvToConfig(readFileSync(dotenvPath[1], files)),
        path |-> dotenvPath]

\* loadConfig(options): the four sources merged, TOML first and the flags
\* last, and validated; the result names the files that were read.
\* options.env holds the configuration variables of the environment and
\* options.HOME its HOME variable, which loadConfig does not read.
loadConfig(options) ==
  LET tomlResult ==
        loadTomlConfig(options.configFile, options.startDir, options.files)
      dotenvResult == loadDotEnv(options.startDir, options.files)
      validated ==
        validateConfig(
          mergeConfigs(<<tomlResult.config, dotenvResult.config,
                         mapEnvToConfig(options.env), options.cli>>))
  IN IF validated.kind = "error" THEN validated
     ELSE Return([config |-> validated.val,
                  sources |-> [tomlPath |-> tomlResult.path,
                               dotenvPath |-> dotenvResult.path]])

(***************************************************************************)
(* The inputs of the model: what the service may answer.                   *)
(***************************************************************************)
RcChars == {"0", "4", "-", " ", "z"}
RcNumbers == {0, -1, -4, 7}
RawCodes ==
  {RawUndefined} \cup {RawNumber(n) : n \in RcNumbers}
    \cup {RawString(s) : s \in SeqsUpTo(RcChars, MaxRcLen)}

Msgs == {None, Some(""), Some("service message")}
Ids == {None, Some(""), Some("ABCDEF123456")}

ContentChars == {"Q", "=", " ", "!"}
Contents == SeqsUpTo(ContentChars, MaxContentLen)

RawFieldNames ==
  {"stnr", "name", "anbringen", "zrvon", "zrbis", "datbesch", "erltyp",
   "fileart", "ts_zust", "applkey", "filebez", "status"}

EmptyRaw == [f \in RawFieldNames |-> None]
RawA ==
  [EmptyRaw EXCEPT !["applkey"] = Some("AAA111"),
                   !["fileart"] = Some(<<"P", "D", "F">>),
                   !["status"] = Some(<<"R", "E", "A", "D">>),
                   !["datbesch"] = Some("1970-01-02")]
RawB ==
  [EmptyRaw EXCEPT !["applkey"] = Some("BBB222"),
                   !["fileart"] = Some(<<"X", "M", "L">>),
                   !["ts_zust"] = Some("1970-01-02T12:00:00Z")]
SampleRaw == {ResultObject(EmptyRaw), ResultObject(RawA), ResultObject(RawB)}

ListResults ==
  SampleRaw \cup {ResultArray(a) : a \in SeqsUpTo(SampleRaw, MaxEntries)}
ContentResults == {ResultString(s) : s \in Contents}
SmallResults ==
  {ResultUndefined, ResultString(<<"Q", "Q">>), ResultObject(RawA)}
AllResults == {ResultUndefined} \cup ListResults \cup ContentResults

\* The payload objects: every return code with a few results, and every
\* result with the return codes of success.
Payloads ==
  {ObjectValue(rc, msg, id, result, None, None) :
     rc \in RawCodes, msg \in Msgs, id \in Ids, result \in SmallResults}
  \cup
  {ObjectValue(rc, None, None, result, None, None) :
     rc \in {RawNumber(0), RawString(<<"0">>), RawNumber(7)},
     result \in AllResults}
  \cup {StringValue("")}

OkPayload ==
  ObjectValue(RawNumber(0), None, Some("ABCDEF123456"),
              ResultString(<<"Q", "Q">>), None, None)
FaultValues ==
  {StringValue(""),
   ObjectValue(RawUndefined, None, None, ResultUndefined,
               Some("Server error"), Some("soap:Server")),
   ObjectValue(RawUndefined, None, None, ResultUndefined, None, None)}

\* What parser.parse throws on a text it rejects: an Error or another value.
ParserThrows(isError) ==
  [t |-> "throws", isError |-> isError, msg |-> "Unexpected end of input"]

ObjectBody(members) == [t |-> "object", members |-> members]
Document(envelope) == [t |-> "parsed", envelope |-> envelope]
Envelope(body) == [body |-> body]

\* Documents with one payload element under the body.
PayloadDocs ==
  {Document(Some(Envelope(Some(ObjectBody(<<Member("loginResponse", p)>>))))) :
     p \in Payloads}

\* The other shapes of a document: unparseable, no envelope, no body, a
\* body that is no object, an empty body, faults alone and beside a payload.
ShapeDocs ==
  {ParserThrows(TRUE), ParserThrows(FALSE), Document(None), Document(Some(Envelope(None))),
   Document(Some(Envelope(Some(StringValue(""))))),
   Document(Some(Envelope(Some(StringValue("text"))))),
   Document(Some(Envelope(Some(ObjectBody(<<>>))))),
   Document(Some(Envelope(Some(ObjectBody(
     <<Member("loginResponse", OkPayload)>>))))),
   Document(Some(Envelope(Some(ObjectBody(
     <<Member("logoutResponse", OkPayload),
       Member("loginResponse", StringValue(""))>>)))))}
  \cup
  {Document(Some(Envelope(Some(ObjectBody(<<Member("Fault", f)>>))))) :
     f \in FaultValues}
  \cup
  {Document(Some(Envelope(Some(ObjectBody(
     <<Member("Fault", f), Member("loginResponse", OkPayload)>>))))) :
     f \in FaultValues}
  \cup
  {Document(Some(Envelope(Some(ObjectBody(
     <<Member("loginResponse", OkPayload), Member("Fault", f)>>))))) :
     f \in FaultValues}

\* A response text: its characters and the document the parser makes of
\* them.  Text(html, wartung, doc) is a text whose characters match the
\* two maintenance patterns as told.
SourceText(src, doc) == [src |-> src, doc |-> doc]
Text(html, wartung, doc) ==
  SourceText(
    (IF html THEN <<"<", "H", "T", "M", "L", ">">> ELSE <<"<", "r", ">">>)
    \o (IF wartung THEN <<"/", "w", "a", "r", "t", "u", "n", "g", "/">>
        ELSE <<"o", "k">>),
    doc)
Response(status, body) == [status |-> status, text |-> body]
Statuses == {200, 404, 500}

\* The responses the network function may resolve with: every shape of
\* document under every status and every match of the two maintenance
\* patterns, and every payload under status 200 in a text that is no
\* maintenance page.
Responses ==
  {Response(st, Text(h, w, d)) :
     st \in Statuses, h \in BOOLEAN, w \in BOOLEAN, d \in ShapeDocs}
  \cup {Response(200, Text(FALSE, FALSE, d)) : d \in PayloadDocs}

NoResponse == Response(0, Text(FALSE, FALSE, ParserThrows(TRUE)))

\* What the network function, or reading the body, may throw of itself, and
\* what it throws once the signal is aborted.
TransportErrors ==
  {Thrown("Error", "Error", TRUE, "Network down", None, None),
   Thrown("TypeError", "TypeError", TRUE, "fetch failed", None, None),
   Thrown("string", "", FALSE, "connection reset", None, None)}
AbortError ==
  Thrown("DOMException", "AbortError", TRUE, "This operation was aborted",
         None, None)

Operations == {"login", "logout", "getDatabox", "getDataboxEntry"}

(***************************************************************************)
(* The state machine of one call of an operation.                          *)
(***************************************************************************)
Init ==
  /\ op = "none"
  /\ pc = "idle"
  /\ timer = "unset"
  /\ aborted = FALSE
  /\ resp = NoResponse
  /\ text = None
  /\ caught = None
  /\ parsed = FALSE
  /\ soap = Pending
  /\ decoded = FALSE
  /\ outcome = Pending
  /\ raw = NoValue
  /\ entry = NoValue
  /\ fetchCalls = 0
  /\ input = NoValue
  /\ output = NoValue
  /\ cli = NoValue
  /\ other = NoValue

\* clearTimeout that leaves the timer as it is.
clearTimeoutNever(t) == t

\* clearTimeout(timeout): a timer that has fired is left as it is.
clearTimeout(t) == IF t = "armed" THEN "cleared" ELSE t

\* An operation is called: it builds its envelope and calls
\* sendSoapRequest, which creates the controller, arms the timer and calls
\* the network function.
Invoke(o) ==
  /\ pc = "idle"
  /\ op' = o
  /\ pc' = "fetching"
  /\ timer' = "armed"
  /\ aborted' = FALSE
  /\ fetchCalls' = fetchCalls + 1
  /\ UNCHANGED <<resp, text, caught, parsed, soap, decoded, outcome, raw, entry,
                 input, output, cli, other>>

\* The timer fires: controller.abort().
TimerFire ==
  /\ timer = "armed"
  /\ timer' = "fired"
  /\ aborted' = TRUE
  /\ UNCHANGED <<op, pc, resp, text, caught, parsed, soap, decoded, outcome, raw,
               entry, fetchCalls, input, output, cli, other>>

\* SettleThrow with one more attempt: the network function is called again
\* after the first failure.
SettleThrowRetry(e) ==
  /\ caught' = Some(e)
  /\ IF fetchCalls < 2
     THEN /\ soap' = soap
          /\ timer' = "armed"
          /\ pc' = "fetching"
          /\ fetchCalls' = fetchCalls + 1
     ELSE /\ soap' = Throw(CatchTranslate(e))
          /\ timer' = clearTimeout(timer)
          /\ pc' = "settled"
          /\ fetchCalls' = fetchCalls

\* sendSoapRequest settles with an error thrown in its try block: the catch
\* block translates it and throws, the network function is not called
\* again.
SettleThrow(e) ==
  /\ caught' = Some(e)
  /\ soap' = Throw(CatchTranslate(e))
  /\ timer' = clearTimeout(timer)
  /\ pc' = "settled"
  /\ fetchCalls' = fetchCalls

\* The network function resolves with a response.
FetchResolve(r) ==
  /\ pc = "fetching"
  /\ ~aborted
  /\ resp' = r
  /\ pc' = "reading"
  /\ UNCHANGED <<op, timer, aborted, text, caught, parsed, soap, decoded, outcome,
               raw, entry, fetchCalls, input, output, cli, other>>

\* The network function throws.
FetchReject(e) ==
  /\ pc = "fetching"
  /\ ~aborted
  /\ SettleThrow(e)
  /\ UNCHANGED <<op, aborted, resp, text, parsed, decoded, outcome, raw, entry,
                 input, output, cli, other>>

\* The body text is read: the response is classified and sendSoapRequest
\* settles.
ReadResolve ==
  /\ pc = "reading"
  /\ ~aborted
  /\ text' = Some(resp.text)
  /\ LET c == Classify(resp) IN
       /\ parsed' = c.parsed
       /\ caught' = IF c.res.kind = "error" THEN Some(c.res.err) ELSE None
       /\ soap' = IF c.res.kind = "error"
                  THEN Throw(CatchTranslate(c.res.err)) ELSE c.res
  /\ timer' = clearTimeout(timer)
  /\ pc' = "settled"
  /\ UNCHANGED <<op, aborted, resp, decoded, outcome, raw, entry,
                 fetchCalls, input, output, cli, other>>

\* Reading the body text throws.
ReadReject(e) ==
  /\ pc = "reading"
  /\ ~aborted
  /\ SettleThrow(e)
  /\ UNCHANGED <<op, aborted, resp, text, parsed, decoded, outcome, raw, entry,
                 input, output, cli, other>>

\* The signal is aborted: the pending network call, or the pending read of
\* the body, is cancelled and throws an AbortError.
AbortReject ==
  /\ pc \in {"fetching", "reading"}
  /\ aborted
  /\ SettleThrow(AbortError)
  /\ UNCHANGED <<op, aborted, resp, text, parsed, decoded, outcome, raw, entry,
                 input, output, cli, other>>

\* The operations resume after await sendSoapRequest: an error it threw
\* propagates, a payload is interpreted.
LoginReturn ==
  /\ pc = "settled" /\ op = "login"
  /\ outcome' = IF soap.kind = "error" THEN soap ELSE login(soap.val)
  /\ pc' = "done"
  /\ UNCHANGED <<op, timer, aborted, resp, text, caught, parsed, soap, decoded, raw,
               entry, fetchCalls, input, output, cli, other>>

LogoutReturn ==
  /\ pc = "settled" /\ op = "logout"
  /\ outcome' = IF soap.kind = "error" THEN soap ELSE logout(soap.val)
  /\ pc' = "done"
  /\ UNCHANGED <<op, timer, aborted, resp, text, caught, parsed, soap, decoded, raw,
               entry, fetchCalls, input, output, cli, other>>

GetDataboxReturn ==
  /\ pc = "settled" /\ op = "getDatabox"
  /\ outcome' = IF soap.kind = "error" THEN soap ELSE getDatabox(soap.val)
  /\ pc' = "done"
  /\ UNCHANGED <<op, timer, aborted, resp, text, caught, parsed, soap, decoded, raw,
               entry, fetchCalls, input, output, cli, other>>

GetDataboxEntryReturn ==
  /\ pc = "settled" /\ op = "getDataboxEntry"
  /\ IF soap.kind = "error"
     THEN outcome' = soap /\ decoded' = FALSE
     ELSE LET r == getDataboxEntry(soap.val) IN
            outcome' = r.res /\ decoded' = r.decoded
  /\ pc' = "done"
  /\ UNCHANGED <<op, timer, aborted, resp, text, caught, parsed, soap, raw, entry,
                 fetchCalls, input, output, cli, other>>

Next ==
  \/ \E o \in Operations : Invoke(o)
  \/ TimerFire
  \/ \E r \in Responses : FetchResolve(r)
  \/ \E e \in TransportErrors : FetchReject(e)
  \/ ReadResolve
  \/ \E e \in TransportErrors : ReadReject(e)
  \/ AbortReject
  \/ LoginReturn
  \/ LogoutReturn
  \/ GetDataboxReturn
  \/ GetDataboxEntryReturn

Spec == Init /\ [][Next]_vars

(***************************************************************************)
(* The scheduling of one call: a timer that stays armed fires, a cancelled *)
(* call throws, and an operation whose request has settled resumes.  The   *)
(* network itself may stay silent for ever.                                *)
(***************************************************************************)
LiveSpec ==
  /\ Spec
  /\ WF_vars(TimerFire)
  /\ WF_vars(AbortReject)
  /\ WF_vars(LoginReturn)
  /\ WF_vars(LogoutReturn)
  /\ WF_vars(GetDataboxReturn)
  /\ WF_vars(GetDataboxEntryReturn)

(***************************************************************************)
(* parseEntry on every raw list record: the record is the single result of *)
(* a successful listing.                                                   *)
(***************************************************************************)
TextFields ==
  {"stnr", "name", "anbringen", "zrvon", "zrbis", "erltyp", "applkey",
   "filebez"}

RawRecords ==
  LET
    Filearts ==
      {None, Some(<<>>), Some(<<"X", "M", "L">>), Some(<<"x", "m", "l">>),
       Some(<<"X", "m", "l">>), Some(<<"P", "D", "F">>), Some(<<"p", "d", "f">>),
       Some(<<"Z", "I", "P">>)}
    StatusTags ==
      {None, Some(<<>>), Some(<<"R", "E", "A", "D">>), Some(<<"r", "e", "a", "d">>),
       Some(<<"R", "e", "a", "d">>), Some(<<"U", "N", "R", "E", "A", "D">>),
       Some(<<"u", "n", "r", "e", "a", "d">>), Some(<<"N", "E", "W">>)}
    DateStrings == {None, Some("1970-01-02"), Some("garbage")}
    TimeStrings == {None, Some("1970-01-02T12:00:00Z"), Some("garbage")}
  IN
  {[f \in RawFieldNames |->
      CASE f = "fileart" -> fa
        [] f = "status" -> st
        [] f = "datbesch" -> d
        [] f = "ts_zust" -> z
        [] OTHER -> IF f \in present THEN Some("v") ELSE None] :
     fa \in Filearts, st \in StatusTags, d \in DateStrings, z \in TimeStrings,
     present \in SUBSET {"stnr", "name", "erltyp", "applkey", "filebez"}}

InitEntry ==
  /\ op = "none"
  /\ pc = "idle"
  /\ timer = "unset"
  /\ aborted = FALSE
  /\ resp = NoResponse
  /\ text = None
  /\ caught = None
  /\ parsed = FALSE
  /\ soap = Pending
  /\ decoded = FALSE
  /\ outcome = Pending
  /\ raw \in RawRecords
  /\ entry = NoValue
  /\ fetchCalls = 0
  /\ input = NoValue
  /\ output = NoValue
  /\ cli = NoValue
  /\ other = NoValue

\* getDatabox answers a listing whose result is the single record raw.
ListSingle ==
  /\ entry = NoValue
  /\ LET r == getDatabox(ObjectValue(RawNumber(0), None, None,
                                     ResultObject(raw), None, None))
     IN entry' = r.val.list[1]
  /\ UNCHANGED <<op, pc, timer, aborted, resp, text, caught, parsed, soap,
                 decoded, outcome, raw, fetchCalls, input, output, cli, other>>

NextEntry == ListSingle

SpecEntry == InitEntry /\ [][NextEntry]_vars

(***************************************************************************)
(* The functions of the codec and of the configuration loader, applied to  *)
(* arguments of their own: input holds the arguments, output the result.   *)
(* No call of an operation is under way meanwhile.                         *)
(***************************************************************************)
callVars ==
  <<op, pc, timer, aborted, resp, text, caught, parsed, soap, decoded,
    outcome, raw, entry, fetchCalls>>

CallAtRest ==
  /\ op = "none"
  /\ pc = "idle"
  /\ timer = "unset"
  /\ aborted = FALSE
  /\ resp = NoResponse
  /\ text = None
  /\ caught = None
  /\ parsed = FALSE
  /\ soap = Pending
  /\ decoded = FALSE
  /\ outcome = Pending
  /\ raw = NoValue
  /\ entry = NoValue
  /\ fetchCalls = 0

ParamKeys == <<"tid", "benid", "id", "erltyp", "ts_zust_von", "ts_zust_bis">>

\* The arguments of the functions.  parseSoapBody: texts of every length
\* around the excerpt's, every shape of document and every expected key.
\* escapeXml: every text of the five characters, the letters of an entity
\* and its closing semicolon.  buildSoapEnvelope: a mapping of up to
\* MaxParams entries, each value undefined, null, a string, a number or a
\* Date.  getDatabox: a session, credentials and every filter.
\* loadConfig: the four sources of a configuration.
\* isMaintenanceResponse: a well-formed envelope or an HTML page
\* around up to MaxParts pieces of content.
ApplyInputs ==
  LET sources ==
        {[i \in 1..n |-> DecimalDigits[(i % 10) + 1]] :
           n \in {0, 1, XmlSnippetLength - 1, XmlSnippetLength,
                  XmlSnippetLength + 1, MaxSourceLen}}
      expectedKeys ==
        {None, Some(""), Some("loginResponse"), Some("logoutResponse"),
         Some("getDataboxResponse"), Some("Fault")}
      values ==
        {RawUndefined, Null, RawString(<<>>), RawString(<<"a", "<", "&">>),
         RawNumber(0), RawNumber(-42), DateValue(DateOf(0)),
         DateValue(DateOf(129600123)), DateValue(InvalidDate)}
      dates ==
        {None, Some(DateOf(0)), Some(DateOf(129600123)), Some(InvalidDate)}
      \* The sources of a configuration: a TOML section with every
      \* required field, and in each source a PIN and a session timeout
      \* that are absent, well-formed or not.
      tomlSection ==
        [EmptyConfig EXCEPT
           !["tid"] = RawString(<<"1", "2", "3", "4", "5", "6", "7", "8">>),
           !["benid"] = RawString(<<"u", "s", "e", "r", "1">>),
           !["herstellerid"] =
             RawString(<<"A", "T", "U", "1", "2", "3", "4", "5", "6", "7">>),
           !["output_dir"] = RawString(<<".", "/", "o", "u", "t">>)]
      Source(base, pin, timeout) ==
        [base EXCEPT !["pin"] = pin, !["session_timeout"] = timeout]
      \* A section that loads, told apart by its PIN.
      completeSection(pin) == Source(tomlSection, RawString(pin), RawUndefined)
      workDir == <<"work", "proj">>
      homeDir == <<"home", "u">>
      File(dir, name, content) ==
        [path |-> [dir |-> dir, name |-> name], content |-> content]
      \* The pieces of a response text, each well-formed XML content:
      \* <rc>0</rc>, <msg>/wartung/</msg>, <msg>/Wartung/</msg>,
      \* <html>x</html>, <msg>&lt;html&gt;</msg>, <![CDATA[<HTML>]]>.
      Piece(part) ==
          CASE part = "rc" ->
                 <<"<", "r", "c", ">", "0", "<", "/", "r", "c", ">">>
            [] part = "marker" ->
                 <<"<", "m", "s", "g", ">", "/", "w", "a", "r", "t", "u",
                   "n", "g", "/", "<", "/", "m", "s", "g", ">">>
            [] part = "MARKER" ->
                 <<"<", "m", "s", "g", ">", "/", "W", "a", "r", "t", "u",
                   "n", "g", "/", "<", "/", "m", "s", "g", ">">>
            [] part = "html" ->
                 <<"<", "h", "t", "m", "l", ">", "x", "<", "/", "h", "t",
                   "m", "l", ">">>
            [] part = "escaped" ->
                 <<"<", "m", "s", "g", ">", "&", "l", "t", ";", "h", "t",
                   "m", "l", "&", "g", "t", ";", "<", "/", "m", "s", "g",
                   ">">>
            [] part = "cdata" ->
                 <<"<", "!", "[", "C", "D", "A", "T", "A", "[", "<", "H",
                   "T", "M", "L", ">", "]", "]", ">">>
      RECURSIVE Pieces(_)
      Pieces(parts) ==
        IF parts = <<>> THEN <<>>
        ELSE Piece(Head(parts)) \o Pieces(Tail(parts))
      \* A well-formed envelope around the pieces, or an HTML page.
      Page(page, parts) ==
        IF page = "envelope"
        THEN SourceText(
               <<"<", "E", "n", "v", "e", "l", "o", "p", "e", ">", "<",
                 "B", "o", "d", "y", ">", "<", "r", ">">>
               \o Pieces(parts)
               \o <<"<", "/", "r", ">", "<", "/", "B", "o", "d", "y", ">",
                    "<", "/", "E", "n", "v", "e", "l", "o", "p", "e", ">">>,
               Document(Some(Envelope(Some(ObjectBody(
                 <<Member("r", OkPayload)>>))))))
        ELSE SourceText(
               <<"<", "h", "t", "m", "l", ">", "<", "b", "o", "d", "y",
                 ">">>
               \o Pieces(parts)
               \o <<"<", "/", "b", "o", "d", "y", ">", "<", "/", "h", "t",
                    "m", "l", ">">>,
               ParserThrows(TRUE))
  IN
  [fn : {"parseSoapBody"},
   xml : {SourceText(src, doc) : src \in sources, doc \in ShapeDocs},
   expectedKey : expectedKeys]
  \cup
  [fn : {"escapeXml"},
   value : SeqsUpTo({"&", "<", ">", "\"", "'", "l", "t", ";"}, MaxValueLen)]
  \cup
  [fn : {"buildSoapEnvelope"},
   params : {[i \in 1..Len(vs) |-> Member(ParamKeys[i], vs[i])] :
               vs \in SeqsUpTo(values, MaxParams)}]
  \cup
  [fn : {"getDatabox"},
   sessionId : {<<"S", "1">>, <<"a", "&", "b">>},
   credentials : {[tid |-> <<"1", "2", "3">>, benid |-> <<"u", "<", "1">>]},
   request : [erltyp : {None, Some(<<>>), Some(<<"P">>)},
              ts_zust_von : dates, ts_zust_bis : dates]]
  \cup
  \* Both files in the start directory, every source varied.
  {[fn |-> "loadConfig", startDir |-> workDir, HOME |-> homeDir,
    configFile |-> None,
    files |-> {File(workDir, "finanzonline.toml", toml),
               File(workDir, ".env", dotenv)},
    env |-> env, cli |-> flags] :
     toml \in {Source(tomlSection, pin, timeout) :
                 pin \in {RawUndefined, RawString(<<"t", "o", "m", "l", "p", "i", "n">>),
                          RawNumber(1234567)},
                 timeout \in {RawUndefined, RawNumber(11),
                              RawString(<<"1", "1">>)}},
     dotenv \in {Source(EmptyConfig, pin, timeout) :
                   pin \in {RawUndefined, RawString(<<>>),
                            RawString(<<"f", "i", "l", "e", "p", "i", "n">>)},
                   timeout \in {RawUndefined, RawString(<<"2", "2">>),
                                RawString(<<"a", "b", "c">>)}},
     env \in {Source(EmptyConfig, pin, timeout) :
                pin \in {RawUndefined, RawString(<<"e", "n", "v", "p", "i", "n", "1">>)},
                timeout \in {RawUndefined, RawString(<<>>),
                             RawString(<<"3", "3">>)}},
     flags \in {Source(EmptyConfig, pin, timeout) :
                pin \in {RawUndefined, Null, RawString(<<"c", "l", "i", "p", "i", "n", "1">>)},
                timeout \in {RawUndefined, Null, RawNumber(44)}}}
  \cup
  \* The places of the TOML file: the start directory, one of its
  \* ancestors, the home directory (under either name), or an explicit
  \* --config path; the start directory lies beside or below the home.
  UNION {
  {[fn |-> "loadConfig", startDir |-> startDir, HOME |-> homeDir,
    configFile |-> configFile,
    files |-> {File(dir, "finanzonline.toml", completeSection(<<"l", "o", "c", "a", "l">>)) :
                 dir \in local}
              \cup {File(homeDir, name, completeSection(<<"h", "o", "m", "e", "1">>)) :
                      name \in home}
              \cup {File(startDir, ".env", EmptyConfig) : d \in dotenv},
    env |-> EmptyConfig, cli |-> EmptyConfig] :
     local \in {{}, {startDir}, {SubSeq(startDir, 1, 1)}, {<<>>},
                {startDir, <<>>}},
     dotenv \in {{}, {1}},
     configFile \in
       {None} \cup
       {Some([dir |-> homeDir, name |-> name]) : name \in home}} :
   startDir \in {workDir, homeDir \o <<"proj">>},
   home \in SUBSET {".finanzonline.toml", "finanzonline.toml"}}
  \cup
  {[fn |-> "isMaintenanceResponse", page |-> page, parts |-> parts,
    text |-> Page(page, parts)] :
     page \in {"envelope", "html"},
     parts \in SeqsUpTo({"rc", "marker", "MARKER", "html", "escaped",
                         "cdata"}, MaxParts)}

InitApply ==
  /\ CallAtRest
  /\ input \in ApplyInputs
  /\ output = NoValue
  /\ cli = NoValue
  /\ other = NoValue

ParseSoapBody ==
  /\ input.fn = "parseSoapBody"
  /\ output = NoValue
  /\ output' = parseSoapBody(input.xml, input.expectedKey)
  /\ UNCHANGED <<callVars, input, cli, other>>

EscapeXml ==
  /\ input.fn = "escapeXml"
  /\ output = NoValue
  /\ output' = Return(escapeXml(input.value))
  /\ UNCHANGED <<callVars, input, cli, other>>

BuildSoapEnvelope ==
  /\ input.fn = "buildSoapEnvelope"
  /\ output = NoValue
  /\ output' = buildSoapEnvelope("https://finanzonline.bmf.gv.at/fon/ws/session",
                                 "login", input.params)
  /\ UNCHANGED <<callVars, input, cli, other>>

IsMaintenanceResponse ==
  /\ input.fn = "isMaintenanceResponse"
  /\ output = NoValue
  /\ output' = Return(isMaintenanceResponse(input.text))
  /\ UNCHANGED <<callVars, input, cli, other>>

GetDataboxBody ==
  /\ input.fn = "getDatabox"
  /\ output = NoValue
  /\ output' = getDataboxBody(input.sessionId, input.credentials,
                              input.request)
  /\ UNCHANGED <<callVars, input, cli, other>>

LoadConfig ==
  /\ input.fn = "loadConfig"
  /\ output = NoValue
  /\ output' = loadConfig(input)
  /\ UNCHANGED <<callVars, input, cli, other>>

NextApply ==
  \/ ParseSoapBody
  \/ LoadConfig
  \/ GetDataboxBody
  \/ IsMaintenanceResponse
  \/ EscapeXml
  \/ BuildSoapEnvelope

SpecApply == InitApply /\ [][NextApply]_vars

(***************************************************************************)
(* The commands of the CLI: list, download and sync.  Each resolves the    *)
(* configuration, logs in, and issues its databox calls one after the      *)
(* other; an error thrown on the way ends the command (parseAsync's catch  *)
(* prints it and sets the exit code).  input holds what loadConfig is      *)
(* called on, output what it yielded, cli the command and where it stands. *)
(***************************************************************************)
\* filterEntries(entries, options)
filterEntries(entries, options) ==
  IF options.all THEN entries
  ELSE IF options.read
  THEN SelectSeq(entries, LAMBDA e : e.status = "READ")
  ELSE SelectSeq(entries, LAMBDA e : e.status = "UNREAD")

InitCli ==
  LET section ==
        [EmptyConfig EXCEPT
           !["tid"] = RawString(<<"1", "2", "3", "4", "5", "6", "7", "8">>),
           !["benid"] = RawString(<<"u", "s", "e", "r", "1">>),
           !["pin"] = RawString(<<"t", "o", "m", "l", "p", "i", "n">>),
           !["herstellerid"] =
             RawString(<<"A", "T", "U", "1", "2", "3", "4", "5", "6", "7">>),
           !["output_dir"] = RawString(<<".", "/", "o", "u", "t">>)]
      \* The TOML section: complete, without a PIN, without an output
      \* directory, with a participant id that is too short or holds a
      \* character outside the pattern, with a timeout that is well-formed
      \* or not positive, and empty.
      sections ==
        {section, EmptyConfig,
         [section EXCEPT !["pin"] = RawUndefined],
         [section EXCEPT !["output_dir"] = RawString(<<" ">>)],
         [section EXCEPT !["tid"] = RawString(<<"1", "2", "3">>)],
         [section EXCEPT !["tid"] =
            RawString(<<"1", "2", "3", "4", "5", "6", "7", "-">>)],
         [section EXCEPT !["session_timeout"] = RawNumber(11)],
         [section EXCEPT !["query_timeout"] = RawNumber(0)]}
      \* The flags: none, a PIN, a PIN that is too short, a timeout.
      flagSets ==
        {EmptyConfig,
         [EmptyConfig EXCEPT !["pin"] = RawString(<<"c", "l", "i", "p", "i", "n", "1">>)],
         [EmptyConfig EXCEPT !["pin"] = RawString(<<"a", "b", "c">>)],
         [EmptyConfig EXCEPT !["query_timeout"] = RawNumber(44)]}
      cwd == <<"work", "proj">>
  IN
  /\ CallAtRest
  /\ input \in
       {[fn |-> "loadConfig", startDir |-> cwd, HOME |-> <<"home", "u">>,
         configFile |-> None,
         files |-> {[path |-> [dir |-> cwd, name |-> "finanzonline.toml"],
                     content |-> toml],
                    [path |-> [dir |-> cwd, name |-> ".env"],
                     content |-> EmptyConfig]},
         env |-> EmptyConfig, cli |-> flags] :
          toml \in sections, flags \in flagSets}
  /\ output = NoValue
  /\ cli \in
       {[command |-> command, options |-> [all |-> all, read |-> read],
         pc |-> "start", todo |-> 0, saved |-> 0] :
          command \in {"list", "download", "sync"},
          all \in BOOLEAN, read \in BOOLEAN}
  /\ cli.command = "download" => ~cli.options.all
  /\ cli.command # "list" => ~cli.options.read
  /\ other = NoValue

\* resolveConfig with the failure of loadConfig swallowed: the command goes
\* on to log in whatever loadConfig yielded.
ResolveConfigUnchecked ==
  /\ cli.pc = "start"
  /\ output' = loadConfig(input)
  /\ cli' = [cli EXCEPT !.pc = "login"]
  /\ UNCHANGED <<callVars, input, other>>

\* resolveConfig(program.opts()), the first statement of every command:
\* loadConfig on the flags, the working directory and the environment.
ResolveConfig ==
  /\ cli.pc = "start"
  /\ output' = loadConfig(input)
  /\ cli' = [cli EXCEPT !.pc = IF output'.kind = "error" THEN "failed"
                               ELSE "login"]
  /\ UNCHANGED <<callVars, input, other>>

\* The command issues its next call on a client created for it: login,
\* then the listing (list, sync) or the download (download), then one
\* download for each entry to synchronise.
CliCall ==
  /\ cli.pc \in {"login", "command", "entries"}
  /\ op' = CASE cli.pc = "login" -> "login"
             [] cli.pc = "command" /\ cli.command = "download" -> "getDataboxEntry"
             [] cli.pc = "command" /\ cli.command # "download" -> "getDatabox"
             [] cli.pc = "entries" -> "getDataboxEntry"
  /\ pc' = "fetching"
  /\ timer' = "armed"
  /\ aborted' = FALSE
  /\ resp' = NoResponse
  /\ text' = None
  /\ caught' = None
  /\ parsed' = FALSE
  /\ soap' = Pending
  /\ decoded' = FALSE
  /\ outcome' = Pending
  /\ fetchCalls' = fetchCalls + 1
  /\ cli' = [cli EXCEPT !.pc = "awaiting"]
  /\ UNCHANGED <<raw, entry, input, output, other>>

\* The command resumes after an awaited call: an error ends it; a session
\* leads to the command's own call; a listing is filtered, then printed
\* (list; formatEntryLine throws on an invalid delivery date) or downloaded
\* entry by entry (sync); a downloaded document is written to its file.
CliResume ==
  /\ cli.pc = "awaiting"
  /\ pc = "done"
  /\ cli' =
       IF outcome.kind = "error" THEN [cli EXCEPT !.pc = "failed"]
       ELSE IF op = "login" THEN [cli EXCEPT !.pc = "command"]
       ELSE IF op = "getDatabox"
       THEN LET filtered == filterEntries(outcome.val.list, cli.options) IN
            IF cli.command = "list"
            THEN [cli EXCEPT !.pc =
                    IF \E i \in 1..Len(filtered) : ~filtered[i].ts_zust.valid
                    THEN "failed" ELSE "finished"]
            ELSE IF filtered = <<>> THEN [cli EXCEPT !.pc = "finished"]
            ELSE [cli EXCEPT !.pc = "entries", !.todo = Len(filtered)]
       ELSE IF cli.command = "download" \/ cli.todo = 1
       THEN [cli EXCEPT !.pc = "finished", !.todo = 0,
                        !.saved = cli.saved + 1]
       ELSE [cli EXCEPT !.pc = "entries", !.todo = cli.todo - 1,
                        !.saved = cli.saved + 1]
  /\ UNCHANGED <<callVars, input, output, other>>

\* What the service answers to a command: a payload that is a session and
\* a document, a listing of a read and an unread entry, an empty listing,
\* a refusal, and a server error.
CliResponses ==
  {Response(200, Text(FALSE, FALSE,
     Document(Some(Envelope(Some(ObjectBody(<<Member("loginResponse", p)>>))))))) :
     p \in {OkPayload,
            ObjectValue(RawNumber(0), None, Some("ABCDEF123456"),
                        ResultArray(<<ResultObject(RawA), ResultObject(RawB)>>),
                        None, None),
            ObjectValue(RawNumber(0), None, Some("ABCDEF123456"),
                        ResultUndefined, None, None),
            ObjectValue(RawNumber(-4), None, None, ResultUndefined, None,
                        None)}}
  \cup {Response(500, Text(FALSE, FALSE, Document(None)))}

NextCli ==
  \/ ResolveConfig
  \/ CliCall
  \/ CliResume
  \/ TimerFire
  \/ \E r \in CliResponses : FetchResolve(r)
  \/ \E e \in TransportErrors : FetchReject(e)
  \/ ReadResolve
  \/ \E e \in TransportErrors : ReadReject(e)
  \/ AbortReject
  \/ LoginReturn
  \/ GetDataboxReturn
  \/ GetDataboxEntryReturn

SpecCli == InitCli /\ [][NextCli]_vars

(***************************************************************************)
(* Two calls in flight at once, on one client or on two: a client holds    *)
(* its timeout, its network function and its URL and nothing else, and     *)
(* the controller and the timer are locals of sendSoapRequest.  The first  *)
(* call is the call of the state machine above; other is the second, from  *)
(* its call of sendSoapRequest to the settling of that call.               *)
(***************************************************************************)
InitConcurrent ==
  /\ CallAtRest
  /\ input = NoValue
  /\ output = NoValue
  /\ cli = NoValue
  /\ other = [pc |-> "idle", timer |-> "unset", aborted |-> FALSE,
              resp |-> NoResponse, soap |-> Pending]

\* The second call is made: its own controller and its own timer.
OtherInvoke ==
  /\ other.pc = "idle"
  /\ other' = [other EXCEPT !.pc = "fetching", !.timer = "armed"]
  /\ fetchCalls' = fetchCalls + 1
  /\ UNCHANGED <<op, pc, timer, aborted, resp, text, caught, parsed, soap,
                 decoded, outcome, raw, entry, input, output, cli>>

\* The timer of the second call with one controller for both calls: its
\* abort reaches the signal of the first call too.
OtherTimerFireShared ==
  /\ other.timer = "armed"
  /\ other' = [other EXCEPT !.timer = "fired", !.aborted = TRUE]
  /\ aborted' = TRUE
  /\ UNCHANGED <<op, pc, timer, resp, text, caught, parsed, soap, decoded,
                 outcome, raw, entry, fetchCalls, input, output, cli>>

\* The timer of the second call fires: its controller aborts its signal.
OtherTimerFire ==
  /\ other.timer = "armed"
  /\ other' = [other EXCEPT !.timer = "fired", !.aborted = TRUE]
  /\ UNCHANGED <<callVars, input, output, cli>>

\* The network function resolves the second call with a response.
OtherFetchResolve(r) ==
  /\ other.pc = "fetching"
  /\ ~other.aborted
  /\ other' = [other EXCEPT !.pc = "reading", !.resp = r]
  /\ UNCHANGED <<callVars, input, output, cli>>

\* The body text of the second call is read, and it settles.
OtherReadResolve ==
  /\ other.pc = "reading"
  /\ ~other.aborted
  /\ LET c == Classify(other.resp) IN
       other' = [other EXCEPT
                   !.pc = "settled",
                   !.timer = clearTimeout(other.timer),
                   !.soap = IF c.res.kind = "error"
                            THEN Throw(CatchTranslate(c.res.err)) ELSE c.res]
  /\ UNCHANGED <<callVars, input, output, cli>>

\* An await of the second call throws: a transport error, or the
\* AbortError once its signal is aborted.
OtherThrow(e) ==
  /\ other.pc \in {"fetching", "reading"}
  /\ other.aborted <=> e = AbortError
  /\ other' = [other EXCEPT !.pc = "settled",
                            !.timer = clearTimeout(other.timer),
                            !.soap = Throw(CatchTranslate(e))]
  /\ UNCHANGED <<callVars, input, output, cli>>

NextConcurrent ==
  \/ \E o \in Operations : Invoke(o)
  \/ TimerFire
  \/ \E r \in CliResponses : FetchResolve(r)
  \/ \E e \in TransportErrors : FetchReject(e)
  \/ ReadResolve
  \/ \E e \in TransportErrors : ReadReject(e)
  \/ AbortReject
  \/ LoginReturn
  \/ LogoutReturn
  \/ GetDataboxReturn
  \/ GetDataboxEntryReturn
  \/ OtherInvoke
  \/ OtherTimerFire
  \/ \E r \in CliResponses : OtherFetchResolve(r)
  \/ OtherReadResolve
  \/ \E e \in TransportErrors \cup {AbortError} : OtherThrow(e)

SpecConcurrent == InitConcurrent /\ [][NextConcurrent]_vars

(***************************************************************************)
(* The claims.                                                             *)
(***************************************************************************)
Settled == pc \in {"settled", "done"}

\* Both maintenance patterns occur in the characters, in any letter case.
MatchesBoth(src) ==
  /\ Matches(<<"<", "h", "t", "m", "l">>, src)
  /\ Matches(<<"/", "w", "a", "r", "t", "u", "n", "g", "/">>, src)

\* C1: sendSoapRequest classifies every received response in a fixed
\* order.  A body matching both maintenance patterns fails with
\* MaintenanceError whatever the status, unparsed; otherwise a status that
\* is not ok fails with NetworkError, unparsed, whatever the body holds;
\* only otherwise is the body parsed, and the parser's payload or typed
\* failure is how the request settles.
C1_ClassificationOrder ==
  (Settled /\ IsSome(text)) =>
    LET body == text[1] IN
    IF MatchesBoth(body.src)
    THEN soap.kind = "error" /\ soap.err.class = "MaintenanceError" /\ ~parsed
    ELSE IF resp.status < 200 \/ resp.status > 299
    THEN soap.kind = "error" /\ soap.err.class = "NetworkError" /\ ~parsed
    ELSE parsed /\ soap = parseSoapBody(body, None)

\* A maintenance page that arrives with status 500 around a well-formed
\* envelope is reported as MaintenanceError.
C1_Witness ==
  /\ pc = "done" /\ IsSome(text)
  /\ MatchesBoth(text[1].src)
  /\ resp.status = 500
  /\ text[1].doc =
       Document(Some(Envelope(Some(ObjectBody(
         <<Member("loginResponse", OkPayload)>>)))))
  /\ outcome.kind = "error" /\ outcome.err.class = "MaintenanceError"

TimedOut(r) ==
  /\ r.kind = "error"
  /\ r.err.class = "NetworkError"
  /\ r.err.msg = "SOAP request timed out"

\* C2: whenever the timer fires while the network call (or the read of its
\* body) is still pending, the signal attached to the call is aborted, and
\* the operation eventually fails with the NetworkError that reports the
\* timeout, the call no longer pending.
C2_TimeoutRejects ==
  /\ [](timer = "fired" => aborted)
  /\ (timer = "fired" /\ pc \in {"fetching", "reading"})
       ~> (pc = "done" /\ aborted /\ TimedOut(soap) /\ TimedOut(outcome))

\* A call that timed out while the network function was pending.
C2_Witness ==
  /\ pc = "done" /\ timer = "fired" /\ aborted
  /\ resp = NoResponse
  /\ TimedOut(outcome)
  /\ outcome.err.cause = Some(AbortError)

\* C3: an error thrown by the network function or by the read of the body
\* (no text has been read) is surfaced as a NetworkError whose cause is
\* that error; an error produced by the classification of a text that was
\* read is one of MaintenanceError, NetworkError, InvalidXmlError and
\* SoapFaultError, and is thrown to the caller as it is.
C3_WrapOrReraise ==
  (Settled /\ IsSome(caught)) =>
    LET e == caught[1] IN
    /\ soap.kind = "error"
    /\ IF IsSome(text)
       THEN /\ e.class \in {"MaintenanceError", "NetworkError",
                            "InvalidXmlError", "SoapFaultError"}
            /\ soap.err = e
            /\ soap.err.cause = None
       ELSE /\ soap.err.class = "NetworkError"
            /\ soap.err.cause = Some(e)
            /\ e.cause = None

\* The network function threw a TypeError and the caller sees a
\* NetworkError with that TypeError as its cause.
C3_Witness ==
  /\ pc = "done" /\ text = None
  /\ caught = Some(Thrown("TypeError", "TypeError", TRUE, "fetch failed",
                          None, None))
  /\ outcome.kind = "error" /\ outcome.err.class = "NetworkError"
  /\ outcome.err.cause = caught

\* The number a raw return code denotes: a number denotes itself, a string
\* the decimal integer it spells (surrounding whitespace aside); an absent
\* code and every other string, the empty one included, denote none.
Denoted(rawCode) ==
  IF rawCode.t = "number" THEN Num(rawCode.n)
  ELSE IF rawCode.t = "string"
  THEN LET t == Trim(rawCode.s) IN
       IF IsDigits(t) THEN Num(DigitsValue(t))
       ELSE IF t # <<>> /\ t[1] = "-" /\ IsDigits(Tail(t))
       THEN Num(0 - DigitsValue(Tail(t)))
       ELSE IF t # <<>> /\ t[1] = "+" /\ IsDigits(Tail(t))
       THEN Num(DigitsValue(Tail(t)))
       ELSE NaN
  ELSE NaN

\* The operation o has interpreted the payload sendSoapRequest returned.
Interpreted(o) == pc = "done" /\ op = o /\ soap.kind = "value"

Failed(r, class) == r.kind = "error" /\ r.err.class = class

\* C4: the outcome of login is determined by the payload's return code and
\* token.  Code -4 fails with InvalidCredentialsError; code 0 with a
\* non-empty token returns that token with returnCode 0; code 0 without a
\* token, and every other code, fails with SessionError.
C4_LoginOutcome ==
  Interpreted("login") =>
    LET code == Denoted(FieldRc(soap.val))
        token == OrElse(FieldId(soap.val), "")
    IN
    IF StrictEq(code, -4) THEN Failed(outcome, "InvalidCredentialsError")
    ELSE IF StrictEq(code, 0) /\ token # ""
    THEN /\ outcome.kind = "value"
         /\ outcome.val.sessionId = token
         /\ outcome.val.returnCode = Num(0)
    ELSE Failed(outcome, "SessionError")

\* C5: a return code that is absent, or a string denoting no finite number
\* (the empty and the whitespace-only string included), is no success in
\* any operation: login fails with SessionError, getDatabox and
\* getDataboxEntry fail with DataboxError, logout returns false.
C5_NonNumericIsFailure ==
  (pc = "done" /\ soap.kind = "value" /\ Denoted(FieldRc(soap.val)).nan) =>
    CASE op = "login" -> Failed(outcome, "SessionError")
      [] op = "logout" -> outcome = Return(BoolValue(FALSE))
      [] OTHER -> Failed(outcome, "DataboxError")

\* C6: for every payload, logout returns without throwing, and returns true
\* exactly when the return code is 0: a non-zero, non-numeric or missing
\* code yields false.
C6_LogoutBoolean ==
  Interpreted("logout") =>
    outcome = Return(BoolValue(StrictEq(Denoted(FieldRc(soap.val)), 0)))

\* C7: in getDatabox and getDataboxEntry the code -1 fails with
\* SessionExpiredError, every other non-zero code with DataboxError, and a
\* non-zero code yields neither entries nor a buffer, whatever result the
\* payload carries.
C7_DataboxCodes ==
  (Interpreted("getDatabox") \/ Interpreted("getDataboxEntry")) =>
    LET code == Denoted(FieldRc(soap.val)) IN
    /\ StrictEq(code, -1) => Failed(outcome, "SessionExpiredError")
    /\ (~code.nan /\ code.v \notin {0, -1}) => Failed(outcome, "DataboxError")
    /\ (~code.nan /\ code.v # 0) => (outcome.kind = "error" /\ ~decoded)

\* A listing answered with code -4 beside a result fails with DataboxError.
C7_Witness ==
  /\ Interpreted("getDatabox")
  /\ FieldRc(soap.val) = RawNumber(-4)
  /\ FieldResult(soap.val) = ResultObject(RawA)
  /\ Failed(outcome, "DataboxError")

\* C8: a successful getDatabox returns no entry for an absent result, one
\* entry for a result that is a single object, and for a sequence of N raw
\* objects N entries, the i-th the mapping of the i-th raw object.
C8_ListNormalization ==
  (Interpreted("getDatabox") /\ outcome.kind = "value") =>
    LET result == FieldResult(soap.val)
        list == outcome.val.list
    IN
    /\ result.t = "undefined" => list = <<>>
    /\ result.t = "object" => list = <<parseEntry(result)>>
    /\ result.t = "array" =>
         /\ Len(list) = Len(result.a)
         /\ \A i \in 1..Len(list) : list[i] = parseEntry(result.a[i])

\* A listing of two different raw objects yields their two entries in order.
C8_Witness ==
  /\ Interpreted("getDatabox")
  /\ FieldResult(soap.val) = ResultArray(<<ResultObject(RawA), ResultObject(RawB)>>)
  /\ outcome.kind = "value"
  /\ Len(outcome.val.list) = 2
  /\ outcome.val.list[1].applkey = "AAA111"
  /\ outcome.val.list[2].fileart = "XML"

EqualsIgnoringCase(m, word) == IsSome(m) /\ toUpperCase(m[1]) = word

EntryDefaults ==
  /\ entry.fileart \in {"PDF", "XML"}
  /\ entry.status \in {"READ", "UNREAD"}
  /\ entry.fileart = "XML" <=> EqualsIgnoringCase(raw.fileart, <<"X", "M", "L">>)
  /\ \A f \in TextFields : raw[f] = None => entry[f] = ""
  /\ raw.datbesch = None => entry.datbesch = DateOf(0)
  /\ raw.ts_zust = None => entry.ts_zust = DateOf(0)

\* C9 as stated: every entry has fileart PDF or XML and status READ or
\* UNREAD; fileart is XML exactly for the raw value XML in any case; status
\* is READ exactly for the raw value READ; absent strings become empty and
\* absent dates the epoch.
C9_StatusExact ==
  entry # NoValue =>
    /\ EntryDefaults
    /\ entry.status = "READ" <=> raw.status = Some(<<"R", "E", "A", "D">>)

\* C9 amended: as stated, but status is READ exactly for the raw value READ
\* compared case-insensitively, like fileart.
C9_EntryDefaults ==
  entry # NoValue =>
    /\ EntryDefaults
    /\ entry.status = "READ" <=>
         EqualsIgnoringCase(raw.status, <<"R", "E", "A", "D">>)

\* A raw record with status read in lower case, fileart xml in lower case
\* and no dates is mapped to a READ, XML entry dated at the epoch.
C9_Witness ==
  /\ entry # NoValue
  /\ raw.status = Some(<<"r", "e", "a", "d">>)
  /\ raw.fileart = Some(<<"x", "m", "l">>)
  /\ raw.datbesch = None /\ raw.stnr = None
  /\ entry.status = "READ" /\ entry.fileart = "XML"
  /\ entry.datbesch = DateOf(0) /\ entry.stnr = ""

PlausibleChar(c) == c \in Base64Chars \cup {"="} \cup Whitespace

\* C10: getDataboxEntry with code 0 fails with DataboxError (missing
\* document content) for an absent or empty content, and with DataboxError
\* (invalid base64 content), nothing decoded, for a content holding a
\* character outside the base64 alphabet, padding and whitespace; what it
\* decodes and returns is a content that passed both checks.
C10_ContentChecks ==
  (Interpreted("getDataboxEntry") /\ StrictEq(Denoted(FieldRc(soap.val)), 0)) =>
    LET content == FieldResult(soap.val) IN
    /\ (content.t = "undefined" \/ content = ResultString(<<>>)) =>
         /\ Failed(outcome, "DataboxError")
         /\ outcome.err.msg = "Missing document content"
         /\ ~decoded
    /\ (content.t = "string"
          /\ \E i \in 1..Len(content.s) : ~PlausibleChar(content.s[i])) =>
         /\ Failed(outcome, "DataboxError")
         /\ outcome.err.msg = "Invalid base64 content"
         /\ ~decoded
    /\ (decoded \/ outcome.kind = "value") =>
         /\ content.t = "string" /\ content.s # <<>>
         /\ \A i \in 1..Len(content.s) : PlausibleChar(content.s[i])
         /\ decoded
         /\ outcome = Return(BufferValue(Base64Decode(content.s)))

\* A content with a character outside the alphabet is refused undecoded.
C10_Witness ==
  /\ Interpreted("getDataboxEntry")
  /\ FieldRc(soap.val) = RawNumber(0)
  /\ FieldResult(soap.val) = ResultString(<<"Q", "!">>)
  /\ Failed(outcome, "DataboxError")
  /\ outcome.err.msg = "Invalid base64 content"
  /\ ~decoded


(***************************************************************************)
(* Claims on parseSoapBody, checked under SpecApply.                       *)
(***************************************************************************)
Applied(fn) == output # NoValue /\ input.fn = fn

\* The members of the body of a parsed document, when the body is a
\* structured element.
HasObjectBody(doc) ==
  /\ doc.t = "parsed"
  /\ IsSome(doc.envelope)
  /\ IsSome(doc.envelope[1].body)
  /\ doc.envelope[1].body[1].t = "object"
MembersOf(doc) == doc.envelope[1].body[1].members

\* C11: a body that holds a Fault element, whatever the fault's content
\* and whether or not other elements stand beside it, makes parseSoapBody
\* fail with SoapFaultError, never with InvalidXmlError or a payload.
C11_FaultAlwaysRaised ==
  (Applied("parseSoapBody") /\ HasObjectBody(input.xml.doc)
     /\ HasKey(MembersOf(input.xml.doc), "Fault"))
  => Failed(output, "SoapFaultError")

\* C12: on a body that raises no fault (no Fault element, or an empty one)
\* parseSoapBody returns the value under expectedKey when that key is
\* supplied and present, the value under the first key other than Fault
\* when no key is supplied, and fails with InvalidXmlError when the
\* supplied key is absent, whatever other keys the body holds.
C12_ExpectedKey ==
  (Applied("parseSoapBody") /\ HasObjectBody(input.xml.doc)) =>
    LET members == MembersOf(input.xml.doc)
        key == input.expectedKey
        others == {i \in 1..Len(members) : members[i].key # "Fault"}
        first == CHOOSE i \in others : \A j \in others : i <= j
    IN (~HasKey(members, "Fault")
          \/ ValueAt(members, "Fault") = StringValue("")) =>
         IF IsSome(key)
         THEN IF HasKey(members, key[1])
              THEN output = Return(ValueAt(members, key[1]))
              ELSE Failed(output, "InvalidXmlError")
         ELSE IF others # {}
              THEN output = Return(members[first].val)
              ELSE Failed(output, "InvalidXmlError")

\* A body with two payload elements and no Fault, asked for a third key.
C12_Witness ==
  /\ Applied("parseSoapBody")
  /\ input.expectedKey = Some("getDataboxResponse")
  /\ HasObjectBody(input.xml.doc)
  /\ Keys(MembersOf(input.xml.doc)) = <<"logoutResponse", "loginResponse">>
  /\ Failed(output, "InvalidXmlError")

\* C13: a document without a body element, or whose body is no structured
\* element, makes parseSoapBody fail with InvalidXmlError; so does a text
\* the parser rejects, whatever it throws; and every InvalidXmlError
\* carries an excerpt that is a prefix of the text, at most 200 characters
\* long.
C13_InvalidXml ==
  Applied("parseSoapBody") =>
    /\ ~HasObjectBody(input.xml.doc) => Failed(output, "InvalidXmlError")
    /\ Failed(output, "InvalidXmlError") =>
         /\ IsSome(output.err.xmlSnippet)
         /\ LET excerpt == output.err.xmlSnippet[1] IN
              /\ Len(excerpt) <= 200
              /\ Len(excerpt) <= Len(input.xml.src)
              /\ excerpt = SubSeq(input.xml.src, 1, Len(excerpt))
    /\ output.kind = "error"
         => output.err.class \in {"InvalidXmlError", "SoapFaultError"}

\* A rejected text longer than the excerpt: the error holds its first 200
\* characters.
C13_Witness ==
  /\ Applied("parseSoapBody")
  /\ input.xml.doc = ParserThrows(FALSE)
  /\ Len(input.xml.src) > 200
  /\ Failed(output, "InvalidXmlError")
  /\ Len(output.err.xmlSnippet[1]) = 200


(***************************************************************************)
(* Claims on the request envelope, checked under SpecApply.                *)
(***************************************************************************)
\* Reading an escaped text back: each of the five entities stands for its
\* character, every other character for itself.
RECURSIVE Unescape(_)
Unescape(s) ==
  IF s = <<>> THEN <<>>
  ELSE
    LET starts == {c \in {"&", "<", ">", "\"", "'"} :
                     /\ Len(Entity(c)) <= Len(s)
                     /\ SubSeq(s, 1, Len(Entity(c))) = Entity(c)}
    IN IF starts = {} THEN <<Head(s)>> \o Unescape(Tail(s))
       ELSE LET c == CHOOSE c \in starts : TRUE
            IN <<c>> \o Unescape(SubSeq(s, Len(Entity(c)) + 1, Len(s)))

\* No raw markup character, and every ampersand begins one of the five
\* entities.
IsEscaped(s) ==
  \A i \in 1..Len(s) :
    /\ s[i] \notin {"<", ">", "\"", "'"}
    /\ s[i] = "&" =>
         \E c \in {"&", "<", ">", "\"", "'"} :
           /\ i + Len(Entity(c)) - 1 <= Len(s)
           /\ SubSeq(s, i, i + Len(Entity(c)) - 1) = Entity(c)

\* The pieces of the envelope between the operation's tags.
OperationBody(envelope) == SubSeq(envelope, 5, Len(envelope) - 3)

\* The elements of a serialized mapping, in order: [key, content].
RECURSIVE Elements(_)
Elements(pieces) ==
  IF pieces = <<>> THEN <<>>
  ELSE
    LET key == CHOOSE k \in {ParamKeys[i] : i \in 1..Len(ParamKeys)} :
                 Head(pieces) = "<" \o k \o ">"
        close == CHOOSE j \in 2..Len(pieces) :
                   /\ pieces[j] = "</" \o key \o ">"
                   /\ \A h \in 2..(j - 1) : pieces[h] # "</" \o key \o ">"
    IN <<[key |-> key, content |-> SubSeq(pieces, 2, close - 1)]>>
       \o Elements(SubSeq(pieces, close + 1, Len(pieces)))

\* The text is the ISO-8601 UTC timestamp, with milliseconds and Z, of the
\* date ms milliseconds after the epoch (a date of January 1970).
IsIsoTimestampOf(s, ms) ==
  /\ Len(s) = 24
  /\ SubSeq(s, 1, 8) = <<"1", "9", "7", "0", "-", "0", "1", "-">>
  /\ s[11] = "T" /\ s[14] = ":" /\ s[17] = ":" /\ s[20] = "." /\ s[24] = "Z"
  /\ \A i \in {9, 10, 12, 13, 15, 16, 18, 19, 21, 22, 23} : s[i] \in Digits
  /\ DigitsValue(SubSeq(s, 12, 13)) < 24
  /\ DigitsValue(SubSeq(s, 15, 16)) < 60
  /\ DigitsValue(SubSeq(s, 18, 19)) < 60
  /\ ms = (DigitsValue(SubSeq(s, 9, 10)) - 1) * 86400000
            + DigitsValue(SubSeq(s, 12, 13)) * 3600000
            + DigitsValue(SubSeq(s, 15, 16)) * 60000
            + DigitsValue(SubSeq(s, 18, 19)) * 1000
            + DigitsValue(SubSeq(s, 21, 23))

\* The decimal text of an integer.
IsDecimalOf(s, n) ==
  IF n < 0 THEN Len(s) > 1 /\ s[1] = "-" /\ IsDigits(Tail(s))
                /\ DigitsValue(Tail(s)) = 0 - n
  ELSE IsDigits(s) /\ DigitsValue(s) = n

\* The entries of a mapping that are neither undefined nor null, in order.
RECURSIVE Present(_)
Present(params) ==
  IF params = <<>> THEN <<>>
  ELSE (IF Head(params).val.t \in {"undefined", "null"} THEN <<>>
        ELSE <<Head(params)>>) \o Present(Tail(params))

\* The envelope holds exactly the elements of the present entries, in the
\* order of the mapping, each with the escaped text of its value.
HoldsExactly(envelope, params) ==
  LET elements == Elements(OperationBody(envelope))
      present == Present(params)
  IN /\ Len(elements) = Len(present)
     /\ \A i \in 1..Len(present) :
          LET value == present[i].val
              content == elements[i].content
          IN /\ elements[i].key = present[i].key
             /\ IsEscaped(content)
             /\ CASE value.t = "string" -> Unescape(content) = value.s
                  [] value.t = "number" -> IsDecimalOf(content, value.n)
                  [] value.t = "date" -> IsIsoTimestampOf(content, value.d.ms)

C15_EscapeRoundTrip ==
  Applied("escapeXml") =>
    /\ Unescape(output.val) = input.value
    /\ IsEscaped(output.val)

\* A text that already reads as an entity is escaped once more.
C15_Witness ==
  /\ Applied("escapeXml")
  /\ input.value = <<"&", "l", "t", ";">>
  /\ output.val = <<"&", "a", "m", "p", ";", "l", "t", ";">>


(***************************************************************************)
(* Claim on the maintenance test, checked under SpecApply.                 *)
(***************************************************************************)
\* C16: isMaintenanceResponse is true for an HTML document that holds the
\* maintenance marker and false for every well-formed envelope document,
\* so that no well-formed envelope is reported as MaintenanceError.
C16_MaintenanceTest ==
  Applied("isMaintenanceResponse") =>
    /\ (input.page = "html"
          /\ \E i \in 1..Len(input.parts) :
               input.parts[i] \in {"marker", "MARKER"})
       => output.val = TRUE
    /\ input.page = "envelope" => output.val = FALSE

\* The elements of the listing's envelope and the keys among them.
ListingElements == Elements(OperationBody(output.val))
ListingKeys == [i \in 1..Len(ListingElements) |-> ListingElements[i].key]
ContentOf(key) ==
  ListingElements[CHOOSE i \in 1..Len(ListingElements) :
                    ListingElements[i].key = key].content
ValidWindow ==
  /\ IsSome(input.request.ts_zust_von) => input.request.ts_zust_von[1].valid
  /\ IsSome(input.request.ts_zust_bis) => input.request.ts_zust_bis[1].valid

\* C17 as stated: the envelope of getDatabox holds the participant id, the
\* user id and the session token, and an element for the type code, the
\* window start and the window end exactly when the filter has that field.
C17_AbsentFieldsOmitted ==
  (Applied("getDatabox") /\ ValidWindow) =>
    /\ output.kind = "value"
    /\ ListingKeys =
         <<"tid", "benid", "id">>
         \o (IF IsSome(input.request.erltyp) THEN <<"erltyp">> ELSE <<>>)
         \o (IF IsSome(input.request.ts_zust_von)
             THEN <<"ts_zust_von">> ELSE <<>>)
         \o (IF IsSome(input.request.ts_zust_bis)
             THEN <<"ts_zust_bis">> ELSE <<>>)

\* C17 as the code has it: the envelope of getDatabox holds the participant
\* id, the user id, the session token and always the type code, empty when
\* the filter has none; it holds the window start and the window end
\* exactly when the filter has them, as ISO timestamps.
C17_FilterElements ==
  (Applied("getDatabox") /\ ValidWindow) =>
    /\ output.kind = "value"
    /\ ListingKeys =
         <<"tid", "benid", "id", "erltyp">>
         \o (IF IsSome(input.request.ts_zust_von)
             THEN <<"ts_zust_von">> ELSE <<>>)
         \o (IF IsSome(input.request.ts_zust_bis)
             THEN <<"ts_zust_bis">> ELSE <<>>)
    /\ Unescape(ContentOf("tid")) = input.credentials.tid
    /\ Unescape(ContentOf("benid")) = input.credentials.benid
    /\ Unescape(ContentOf("id")) = input.sessionId
    /\ Unescape(ContentOf("erltyp")) = OrElse(input.request.erltyp, <<>>)
    /\ IsSome(input.request.ts_zust_von) =>
         IsIsoTimestampOf(ContentOf("ts_zust_von"),
                          input.request.ts_zust_von[1].ms)
    /\ IsSome(input.request.ts_zust_bis) =>
         IsIsoTimestampOf(ContentOf("ts_zust_bis"),
                          input.request.ts_zust_bis[1].ms)

\* A filter with a window start only: the type code is sent empty.
C17_Witness ==
  /\ Applied("getDatabox")
  /\ input.request.erltyp = None
  /\ IsSome(input.request.ts_zust_von)
  /\ input.request.ts_zust_bis = None
  /\ output.kind = "value"
  /\ ListingKeys = <<"tid", "benid", "id", "erltyp", "ts_zust_von">>
  /\ ContentOf("erltyp") = <<>>

(***************************************************************************)
(* Claims on the calls of the network function, checked under Spec.        *)
(***************************************************************************)
\* C18: an invocation of login, logout, getDatabox or getDataboxEntry
\* calls the network function once and never again: whatever
\* sendSoapRequest throws (a timeout, a network failure, a maintenance
\* page) is the operation's failure as it stands, and a session-expired
\* code fails the operation without a second call.
C18_SingleCall ==
  /\ fetchCalls <= 1
  /\ pc # "idle" => fetchCalls = 1
  /\ (pc = "done" /\ soap.kind = "error") => outcome = soap

\* A listing answered with the session-expired code has failed after one
\* call.
C18_Witness ==
  /\ pc = "done" /\ op = "getDatabox"
  /\ Failed(outcome, "SessionExpiredError")
  /\ fetchCalls = 1

\* C19: whenever login, logout, getDatabox or getDataboxEntry fails,
\* whatever the service answers and whatever the network function does,
\* what reaches the caller is one of the typed errors deriving from
\* FinanzonlineError.
C19_TypedFailures ==
  (pc = "done" /\ outcome.kind = "error") =>
    outcome.err.class \in ErrorClasses

(***************************************************************************)
(* Claim on the configuration loader, checked under SpecApply.             *)
(***************************************************************************)
\* What each source yields once read, from the lowest priority to the
\* highest: the TOML section, the .env file, the environment, the flags.
ContentAt(dir, name) ==
  (CHOOSE file \in input.files :
     file.path = [dir |-> dir, name |-> name]).content
SourcesRead ==
  <<pickConfig(ContentAt(input.startDir, "finanzonline.toml")),
    mapEnvToConfig(ContentAt(input.startDir, ".env")),
    mapEnvToConfig(input.env), input.cli>>
\* Both files lie in the start directory and no --config path is given.
BothLocal ==
  /\ input.configFile = None
  /\ \A name \in {"finanzonline.toml", ".env"} :
       \E file \in input.files :
         file.path = [dir |-> input.startDir, name |-> name]
Defines(i, f) == SourcesRead[i][f].t \notin {"undefined", "null"}

\* The configuration that takes every field from the highest-priority
\* source defining it, and leaves undefined what no source defines.
Selected ==
  [f \in StringFields \cup NumberFields |->
     IF \E i \in 1..4 : Defines(i, f)
     THEN SourcesRead[CHOOSE i \in 1..4 :
                        Defines(i, f) /\ \A j \in (i + 1)..4 : ~Defines(j, f)][f]
     ELSE RawUndefined]

\* C20: loadConfig takes every field from the highest-priority source that
\* defines it, in the order flags > environment > .env file > TOML file,
\* and a source that leaves the field undefined does not override a lower
\* one that defines it: what loadConfig yields is what the schema makes of
\* that selection, and every field of a loaded configuration that some
\* source defines has that source's value.
C20_Priority ==
  Applied("loadConfig") /\ BothLocal =>
    /\ output.kind = validateConfig(Selected).kind
    /\ output.err = validateConfig(Selected).err
    /\ output.kind = "value" =>
         /\ output.val.config = validateConfig(Selected).val
         /\ \A f \in StringFields \cup NumberFields :
              (\E i \in 1..4 : Defines(i, f)) =>
                output.val.config[f] = Selected[f]

\* The flags leave both fields undefined, the environment defines the PIN
\* only, the .env file and the TOML file define both: the PIN is the
\* environment's, the timeout the .env file's.
C20_Witness ==
  /\ Applied("loadConfig") /\ BothLocal /\ output.kind = "value"
  /\ ~Defines(4, "pin") /\ ~Defines(4, "session_timeout")
  /\ Defines(3, "pin") /\ ~Defines(3, "session_timeout")
  /\ Defines(2, "pin") /\ Defines(2, "session_timeout")
  /\ Defines(1, "pin") /\ Defines(1, "session_timeout")
  /\ output.val.config["pin"] = RawString(<<"e", "n", "v", "p", "i", "n", "1">>)
  /\ output.val.config["session_timeout"] = RawNumber(22)

(***************************************************************************)
(* Claim on the place of the TOML file, checked under SpecApply.           *)
(***************************************************************************)
\* The directories searched upwards from the start directory: the start
\* directory and each of its ancestors, down to the root.
Ancestors(dir) == {SubSeq(dir, 1, k) : k \in 0..Len(dir)}
Exists(dir, name) ==
  \E file \in input.files : file.path = [dir |-> dir, name |-> name]
HomeFiles ==
  {[dir |-> input.HOME, name |-> name] :
     name \in {n \in {".finanzonline.toml", "finanzonline.toml"} :
                Exists(input.HOME, n)}}
NoLocalToml ==
  \A dir \in Ancestors(input.startDir) : ~Exists(dir, "finanzonline.toml")

\* C21: when no finanzonline.toml exists in the start directory or any of
\* its ancestors and no explicit path is given, loadConfig reads the TOML
\* file of the home directory named by HOME (.finanzonline.toml or
\* finanzonline.toml) and reports its path as sources.tomlPath; when a
\* finanzonline.toml exists in the start directory, that file is read and
\* reported instead.
C21_HomeDirectory ==
  Applied("loadConfig") /\ input.configFile = None =>
    /\ NoLocalToml /\ HomeFiles # {} =>
         /\ output.kind = "value"
         /\ \E path \in HomeFiles :
              /\ output.val.sources.tomlPath = Some(path)
              /\ output.val.config["pin"] = ContentAt(path.dir, path.name)["pin"]
    /\ Exists(input.startDir, "finanzonline.toml") =>
         /\ output.kind = "value"
         /\ output.val.sources.tomlPath =
              Some([dir |-> input.startDir, name |-> "finanzonline.toml"])
         /\ output.val.config["pin"] =
              ContentAt(input.startDir, "finanzonline.toml")["pin"]

\* The part of C21 on the start directory alone: a finanzonline.toml in the
\* start directory is the file read, whatever the home directory holds.
C21_LocalPreferred ==
  Applied("loadConfig") /\ input.configFile = None
    /\ Exists(input.startDir, "finanzonline.toml") /\ HomeFiles # {}
    /\ ~BothLocal =>
      /\ output.kind = "value"
      /\ output.val.sources.tomlPath =
           Some([dir |-> input.startDir, name |-> "finanzonline.toml"])

\* The home directory holds .finanzonline.toml, no directory from the start
\* directory upwards holds a finanzonline.toml, and loadConfig fails.
C21_HomeIgnored ==
  /\ Applied("loadConfig") /\ input.configFile = None
  /\ NoLocalToml /\ Exists(input.HOME, ".finanzonline.toml")
  /\ Failed(output, "ConfigurationError")

(***************************************************************************)
(* Claim on the commands of the CLI, checked under SpecCli.                *)
(***************************************************************************)
\* The schema, read as a predicate on the merged settings: every required
\* field is a string of the required form, a timeout is absent or a
\* positive number.
MeetsSchema(config) ==
  LET Str(f) == config[f].t = "string"
      Between(f, lo, hi) == Len(config[f].s) >= lo /\ Len(config[f].s) <= hi
      Plain(f) ==
        \A i \in 1..Len(config[f].s) :
          \E j \in 1..62 : Base64Alphabet[j] = config[f].s[i]
      Timeout(f) ==
        config[f].t = "undefined" \/ (config[f].t = "number" /\ config[f].n >= 1)
  IN /\ Str("tid") /\ Between("tid", 8, 12) /\ Plain("tid")
     /\ Str("benid") /\ Between("benid", 5, 12)
     /\ Str("pin") /\ Between("pin", 5, 128)
     /\ Str("herstellerid") /\ Between("herstellerid", 10, 24)
     /\ Plain("herstellerid")
     /\ Str("output_dir") /\ Trim(config["output_dir"].s) # <<>>
     /\ Timeout("session_timeout") /\ Timeout("query_timeout")

\* What holds once a command has resolved its configuration.
ConfigResolved ==
  /\ Failed(output, "ConfigurationError") <=> ~MeetsSchema(Selected)
  /\ output.kind = "error" =>
       /\ Failed(output, "ConfigurationError")
       /\ cli.pc = "failed" /\ fetchCalls = 0 /\ op = "none"
  /\ output.kind = "value" =>
       \A f \in NumberFields :
         (\A i \in 1..4 : ~Defines(i, f)) =>
           output.val.config[f] = RawNumber(30)

\* C22: when the merged settings miss a required field or hold a malformed
\* one, loadConfig fails with ConfigurationError, and in each of the
\* commands list, download and sync that failure ends the command before
\* any network call: no call is issued before the configuration has been
\* resolved, and none is ever issued after it has failed.  A timeout that no
\* source supplies is 30.
C22_ConfigurationFirst ==
  /\ [](output # NoValue => ConfigResolved)
  /\ [](fetchCalls > 0 => output # NoValue /\ output.kind = "value")
  /\ [](output # NoValue /\ output.kind = "error" => [](fetchCalls = 0))

\* The sync command has failed on a configuration without a PIN, and the
\* network function has not been called.
C22_Witness ==
  /\ cli # NoValue /\ cli.command = "sync" /\ cli.pc = "failed"
  /\ Failed(output, "ConfigurationError")
  /\ ~Defines(1, "pin") /\ ~Defines(4, "pin")
  /\ fetchCalls = 0

(***************************************************************************)
(* Claim on calls in flight together, checked under SpecConcurrent.        *)
(***************************************************************************)
\* The state of the first call, and how a request settles on a response
\* whose text was read.
ThisCall ==
  <<op, pc, timer, aborted, resp, text, caught, parsed, soap, decoded,
    outcome>>
SettlesOn(r) ==
  IF isMaintenanceResponse(r.text) THEN "MaintenanceError"
  ELSE IF ~ResponseOk(r) THEN "NetworkError"
  ELSE "parsed"
OwnResponseOnly(call) ==
  /\ TimedOut(call.soap) => call.timer = "fired"
  /\ call.aborted => call.timer = "fired"
  /\ call.pc \in {"settled", "done"} /\ call.timer = "cleared"
       /\ call.resp # NoResponse /\ call.soap.kind = "error"
       /\ call.soap.err.cause = None =>
         \/ SettlesOn(call.resp) = call.soap.err.class
         \/ SettlesOn(call.resp) = "parsed"
              /\ call.soap.err.class \in {"InvalidXmlError", "SoapFaultError"}
  /\ call.soap.kind = "value" =>
       /\ SettlesOn(call.resp) = "parsed"
       /\ call.soap = parseSoapBody(call.resp.text, None)

\* C23: two calls in flight together do not interfere.  Each has its own
\* timer and signal: a signal is aborted only by the timer of its own call,
\* a call reports a timeout only when its own timer fired, and a call that
\* settles on a response settles as that response alone determines; no step
\* of one call changes anything in the state of the other.
C23_NoInterference ==
  /\ [](OwnResponseOnly([pc |-> pc, timer |-> timer, aborted |-> aborted,
                         resp |-> resp, soap |-> soap]))
  /\ [](OwnResponseOnly(other))
  /\ [][other' # other => UNCHANGED ThisCall]_vars
  /\ [][ThisCall' # ThisCall => other' = other]_vars

\* The second call timed out while the first was in flight, and the first
\* has returned the session of its own response, its timer cleared and its
\* signal never aborted.
C23_Witness ==
  /\ other # NoValue /\ other.pc = "settled" /\ other.timer = "fired"
  /\ TimedOut(other.soap)
  /\ op = "login" /\ pc = "done" /\ timer = "cleared" /\ ~aborted
  /\ outcome.kind = "value"

(***************************************************************************)
(* Claims on the operations' results, checked under Spec.                  *)
(***************************************************************************)
\* The operation failed on the generic branch of its return-code test:
\* with SessionError or DataboxError, on a code that is not 0.
GenericFailure ==
  /\ pc = "done" /\ soap.kind = "value"
  /\ op \in {"login", "getDatabox", "getDataboxEntry"}
  /\ Failed(outcome, IF op = "login" THEN "SessionError" ELSE "DataboxError")
  /\ ~StrictEq(outcome.err.rc[1], 0)

\* The value an error carries is the return code as received: the number
\* received, the number a received string spells, and for a string that
\* spells none, that string, which no number is.
CarriesRaw(carried, rawCode) ==
  CASE rawCode.t = "number" -> carried = Num(rawCode.n)
    [] rawCode.t = "string" ->
         ~Denoted(rawCode).nan /\ carried = Denoted(rawCode)
    [] OTHER -> carried = NaN

\* C24: when login, getDatabox or getDataboxEntry fails on the generic
\* branch, on a non-zero or a non-numeric code, the SessionError or
\* DataboxError raised carries the return code as the service sent it.
C24_RawCodeCarried ==
  GenericFailure => CarriesRaw(outcome.err.rc[1], FieldRc(soap.val))

\* The part of C24 on the codes that denote a number: the error carries
\* that number.
C24_NumericCodeCarried ==
  GenericFailure /\ ~Denoted(FieldRc(soap.val)).nan =>
    outcome.err.rc[1] = Denoted(FieldRc(soap.val))

\* login failed on the code "z" and its SessionError carries NaN.
C24_CodeLost ==
  /\ GenericFailure /\ op = "login"
  /\ FieldRc(soap.val) = RawString(<<"z">>)
  /\ outcome.err.rc = Some(NaN)

\* C25: whenever getDataboxEntry resolves, the buffer it returns holds at
\* least one byte: every content that passes the plausibility check
\* decodes to a non-empty sequence of bytes.
C25_BufferNonEmpty ==
  (Interpreted("getDataboxEntry") /\ outcome.kind = "value") =>
    /\ outcome.val.t = "buffer"
    /\ outcome.val.bytes # <<>>

\* The content "=" passed both checks and was decoded to no byte at all.
C25_EmptyBuffer ==
  /\ Interpreted("getDataboxEntry")
  /\ FieldResult(soap.val) = ResultString(<<"=">>)
  /\ decoded
  /\ outcome = Return(BufferValue(<<>>))

\* C26: on every exit path of sendSoapRequest (a payload returned, a typed
\* error thrown again, an error wrapped) the timer is cleared: once the
\* request has settled no timer is armed, and from then on the timer stays
\* as it is and the signal is never aborted.
C26_TimerCleared ==
  /\ [](Settled => timer \in {"cleared", "fired"})
  /\ [](Settled /\ timer = "cleared" => ~aborted)
  /\ [][Settled => (timer' = timer /\ aborted' = aborted)]_vars

\* The three exit paths, each with its timer cleared: a payload returned,
\* a typed error of the classification, a wrapped transport error.
ExitPath ==
  IF soap.kind = "value" THEN "returned"
  ELSE IF soap.kind = "error" /\ soap.err.cause = None THEN "rethrown"
  ELSE IF soap.kind = "error" THEN "wrapped"
  ELSE "pending"

\* A request that settled by wrapping a transport error thrown by the read
\* of the body: its timer is cleared, its signal not aborted.
C26_Witness ==
  /\ pc = "done" /\ timer = "cleared" /\ ~aborted
  /\ ExitPath = "wrapped" /\ resp # NoResponse /\ text = None


\* The body of the response that was read holds no fault that counts and at
\* least one element that is no Fault.
HasPayloadElement ==
  /\ pc = "done" /\ parsed
  /\ HasObjectBody(resp.text.doc)
  /\ \A i \in 1..Len(MembersOf(resp.text.doc)) :
       MembersOf(resp.text.doc)[i].key = "Fault" =>
         ~Truthy(MembersOf(resp.text.doc)[i].val)
  /\ \E i \in 1..Len(MembersOf(resp.text.doc)) :
       MembersOf(resp.text.doc)[i].key # "Fault"
FirstElement ==
  LET members == MembersOf(resp.text.doc)
      first == CHOOSE i \in 1..Len(members) :
                 /\ members[i].key # "Fault"
                 /\ \A j \in 1..(i - 1) : members[j].key = "Fault"
  IN members[first]

\* C27: sendSoapRequest passes no expected key to parseSoapBody, so what
\* login, logout, getDatabox and getDataboxEntry make of a response is what
\* they make of the content of the first element under the body that is no
\* Fault, whatever that element is called: an element that belongs to
\* another operation is interpreted as if it were the expected one.
C27_ElementNameIgnored ==
  HasPayloadElement =>
    /\ soap = Return(FirstElement.val)
    /\ outcome =
         CASE op = "login" -> login(FirstElement.val)
           [] op = "logout" -> logout(FirstElement.val)
           [] op = "getDatabox" -> getDatabox(FirstElement.val)
           [] op = "getDataboxEntry" -> getDataboxEntry(FirstElement.val).res

\* getDataboxEntry was answered with a loginResponse element and returned
\* the bytes of that element's result.
C27_Witness ==
  /\ HasPayloadElement /\ op = "getDataboxEntry"
  /\ FirstElement.key = "loginResponse"
  /\ FirstElement.val = OkPayload
  /\ outcome.kind = "value" /\ outcome.val.t = "buffer"

=============================================================================
